---- MODULE Spec2Model ----
(***************************************************************************)
(* Payroll computation and compliance deduction engine of PayrollSystem.   *)
(*                                                                         *)
(* Units.  Money stored in a DECIMAL(12,2) column is an integer number of  *)
(* centavos.  Unrounded Python floats are fixed-point integers in "bp"     *)
(* (1/100 centavo = 0.0001 peso); round(x, 2) is Round2 (bp -> centavos).  *)
(* Hours are hundredths of an hour (DECIMAL(5,2)), clock times are minutes *)
(* after midnight, dates are day numbers.                                  *)
(***************************************************************************)
EXTENDS Integers, Sequences, FiniteSets, TLC

(* ------------------------------ bounds --------------------------------- *)
MaxOps == 1
MaxRuns == 3
MaxFaults == 1
MaxRacingRuns == 2
MaxUploads == 3

(* The calendar: the two days of the payroll period. *)
Days == {1, 2}
Emp == {1, 2}
Periods == {1}
Operators == {1, 2}
(* None / SQL NULL, one value per type so that comparisons stay typed. *)
NULL == -999999999
NoRid == <<>>
NoRow == [effective_from |-> 0, version |-> 0, file_path |-> ""]

(* The one payroll period of the model: payroll_periods row 1. *)
PeriodRow(p) == [start_date |-> 1, end_date |-> 2]

(* system_settings as seeded; no screen of the application rewrites them. *)
regular_work_hours_per_day == 800
regular_work_start_time == 480
regular_work_end_time == 1020
night_differential_start == 1320
night_differential_end == 360
overtime_rate_multiplier == 125
night_differential_rate == 10
holiday_rate_multiplier == 200
rest_day_rate_multiplier == 130

(* ---------------------------- arithmetic -------------------------------- *)
(* A local variable: the value is computed once and then named. *)
Bind(value, Body(_)) == CHOOSE out \in {Body(x) : x \in {value}} : TRUE

Min(a, b) == IF a <= b THEN a ELSE b
Max(a, b) == IF a >= b THEN a ELSE b

(* a * n / d without leaving 32 bits, floored. *)
MulDiv(a, n, d) == (a \div d) * n + ((a % d) * n) \div d

(* round(x, 2): bp to centavos, ties to even. *)
Round2(x) ==
    LET q == x \div 100
        r == x % 100
    IN  IF r < 50 THEN q
        ELSE IF r > 50 THEN q + 1
        ELSE IF q % 2 = 0 THEN q ELSE q + 1

RECURSIVE SumSeq(_)
SumSeq(s) == IF s = <<>> THEN 0 ELSE Head(s) + SumSeq(Tail(s))

(* ------------------------- rate table store ----------------------------- *)
FileTypes == {"BIR Tax", "SSS Contributions", "PhilHealth Rates", "Pag-IBIG Rates"}

(* type_mapping.get(file_type, file_type.upper()) *)
DbType(file_type) ==
    CASE file_type = "BIR Tax" -> "TAX"
      [] file_type = "SSS Contributions" -> "SSS"
      [] file_type = "PhilHealth Rates" -> "PHILHEALTH"
      [] file_type = "Pag-IBIG Rates" -> "PAGIBIG"
      [] OTHER -> file_type

(* The table of one db type: tax_tables, or the rows of contribution_tables
   of that type, as the set of row ids (positions in the table). *)
RowsOfType(db_type, tax, contrib) ==
    IF db_type = "TAX" THEN {<<"TAX", i>> : i \in DOMAIN tax}
    ELSE {<<db_type, i>> : i \in {j \in DOMAIN contrib : contrib[j].type = db_type}}

RowAt(rid, tax, contrib) == IF rid[1] = "TAX" THEN tax[rid[2]] ELSE contrib[rid[2]]

SetMax(S) == CHOOSE x \in S : \A y \in S : y <= x

(* SELECT MAX(version) ...; version = (result[0] or 0) + 1 *)
NextVersionSame(db_type, tax, contrib) ==
    LET vs == {RowAt(r, tax, contrib).version : r \in RowsOfType(db_type, tax, contrib)}
    IN  IF vs = {} THEN 1 ELSE SetMax(vs)
NextVersion(db_type, tax, contrib) ==
    LET vs == {RowAt(r, tax, contrib).version : r \in RowsOfType(db_type, tax, contrib)}
    IN  (IF vs = {} THEN 0 ELSE SetMax(vs)) + 1

(* WHERE effective_from <= as_of ORDER BY effective_from DESC, version DESC
   LIMIT 1; NoRid when no row qualifies. *)
LatestRowAsOf(db_type, as_of, tax, contrib) ==
    LET cand == {r \in RowsOfType(db_type, tax, contrib) :
                    RowAt(r, tax, contrib).effective_from <= as_of}
        Before(a, b) ==
            LET x == RowAt(a, tax, contrib)
                y == RowAt(b, tax, contrib)
            IN  \/ x.effective_from > y.effective_from
                \/ x.effective_from = y.effective_from /\ x.version > y.version
                \/ x.effective_from = y.effective_from /\ x.version = y.version
                   /\ a[2] <= b[2]
    IN  IF cand = {} THEN NoRid
        ELSE CHOOSE r \in cand : \A o \in cand : Before(r, o)

(* The query of get_latest_compliance_file compares with CURDATE(). *)
get_latest_compliance_file(file_type, today, tax, contrib) ==
    LatestRowAsOf(DbType(file_type), today, tax, contrib)

(* --------------------------- bracket parser ----------------------------- *)
(* The files of the uploads directory.  A row holds its parsed cells; kind
   tells the form of the row:
     "range"    a range cell "lo-hi" and numeric cells,
     "nodash"   an open row "lo+", which has no '-',
     "Maximum"  the Pag-IBIG cap row,
     "typo"     a range cell with the '-' left out ("3251 3750"),
     "badrange" a range cell with a '-' that float() rejects ("3251-375O"),
     "badshare" a share cell that is not a number ("n/a").
   Amounts in centavos, rates in 1/10000, 0 for a cell of the other form
   (None and 0 are both falsy to the caller). *)
SourceFile(file_type) ==
    CASE file_type = "SSS Contributions" -> "sss.csv"
      [] file_type = "PhilHealth Rates" -> "philhealth.csv"
      [] file_type = "Pag-IBIG Rates" -> "pagibig.csv"
      [] OTHER -> "tax.csv"

FileRows(file_path) ==
    CASE file_path = "sss.csv" ->
            << [kind |-> "range", min |-> 0, max |-> 325000, rate |-> 0, fixed |-> 18000],
               [kind |-> "range", min |-> 325100, max |-> 2475000, rate |-> 0, fixed |-> 20250] >>
      [] file_path = "philhealth.csv" ->
            << [kind |-> "range", min |-> 0, max |-> 1000000, rate |-> 0, fixed |-> 25000],
               [kind |-> "range", min |-> 1000100, max |-> 8000000, rate |-> 250, fixed |-> 0],
               [kind |-> "nodash", min |-> 0, max |-> 0, rate |-> 0, fixed |-> 200000] >>
      [] file_path = "pagibig.csv" ->
            << [kind |-> "range", min |-> 0, max |-> 150000, rate |-> 200, fixed |-> 0],
               [kind |-> "nodash", min |-> 0, max |-> 0, rate |-> 200, fixed |-> 0],
               [kind |-> "Maximum", min |-> 0, max |-> 0, rate |-> 0, fixed |-> 5000] >>
      [] file_path = "tax.csv" ->
            << [kind |-> "range", from |-> 0, to |-> 100000, base_tax |-> 0, rate |-> 0],
               [kind |-> "range", from |-> 100000, to |-> 3333200, base_tax |-> 0,
                rate |-> 1500] >>
      [] file_path = "sss_bad.csv" ->
            << [kind |-> "range", min |-> 0, max |-> 325000, rate |-> 0, fixed |-> 18000],
               [kind |-> "badshare", min |-> 325100, max |-> 2475000, rate |-> 0, fixed |-> 0] >>
      [] file_path = "sss_typo.csv" ->
            << [kind |-> "range", min |-> 0, max |-> 325000, rate |-> 0, fixed |-> 18000],
               [kind |-> "typo", min |-> 0, max |-> 0, rate |-> 0, fixed |-> 20250],
               [kind |-> "range", min |-> 375100, max |-> 2475000, rate |-> 0, fixed |-> 22500] >>
      [] file_path = "philhealth_bad.csv" ->
            << [kind |-> "range", min |-> 0, max |-> 1000000, rate |-> 0, fixed |-> 25000],
               [kind |-> "badrange", min |-> 0, max |-> 0, rate |-> 250, fixed |-> 0] >>
      [] file_path = "pagibig_bad.csv" ->
            << [kind |-> "range", min |-> 0, max |-> 150000, rate |-> 200, fixed |-> 0],
               [kind |-> "badrange", min |-> 0, max |-> 0, rate |-> 200, fixed |-> 0] >>
      [] file_path = "pagibig_share.csv" ->
            << [kind |-> "range", min |-> 0, max |-> 150000, rate |-> 200, fixed |-> 0],
               [kind |-> "badshare", min |-> 150100, max |-> 9999900, rate |-> 0, fixed |-> 0] >>
      [] file_path = "tax_bad.csv" ->
            << [kind |-> "range", from |-> 0, to |-> 100000, base_tax |-> 0, rate |-> 0],
               [kind |-> "badrange", from |-> 0, to |-> 0, base_tax |-> 0, rate |-> 0] >>
      [] file_path = "rates.pdf" ->
            << [kind |-> "range", min |-> 0, max |-> 325000, rate |-> 0, fixed |-> 18000] >>
      [] OTHER -> <<>>

(* os.path.exists(file_path): "removed.csv" names a copy that was deleted
   from the uploads directory after its row was stored. *)
FilesOnDisk ==
    {"sss.csv", "philhealth.csv", "pagibig.csv", "tax.csv", "sss_bad.csv", "sss_typo.csv",
     "philhealth_bad.csv", "pagibig_bad.csv", "pagibig_share.csv", "tax_bad.csv",
     "rates.pdf"}

FileExists(file_path) == file_path \in FilesOnDisk

(* file_path.endswith('.csv'); the workbook branch reads the same cells. *)
EndsWithCsv(file_path) == file_path # "rates.pdf"

(* '-' in salary_range *)
HasDash(row) == row.kind \in {"range", "badrange", "badshare"}
IsMaximum(row) == row.kind = "Maximum"

(* The rows on which a float() or the unpacking of split('-') raises: SSS
   converts the cells of the rows with a '-' only, PhilHealth converts the
   share cells of every row, Pag-IBIG takes a share without '%' as None. *)
SSSRowRaises(row) == row.kind \in {"badrange", "badshare"}
PhilHealthRowRaises(row) == row.kind \in {"badrange", "badshare"}
PagibigRowRaises(row) == row.kind = "badrange"
TaxRowRaises(row) == row.kind # "range"

parse_sss_file(file_path) ==
    LET all == FileRows(file_path)
        rows == SelectSeq(all, HasDash)
    IN  IF ~EndsWithCsv(file_path) THEN [brackets |-> <<>>]
        ELSE IF ~FileExists(file_path) \/ \E i \in DOMAIN all : SSSRowRaises(all[i])
        THEN [brackets |-> <<>>]
        ELSE [brackets |-> [i \in DOMAIN rows |->
                [min |-> rows[i].min, max |-> rows[i].max,
                 employee_share |-> rows[i].fixed]]]

parse_philhealth_file(file_path) ==
    LET all == FileRows(file_path)
        rows == SelectSeq(all, HasDash)
    IN  IF ~EndsWithCsv(file_path) THEN [brackets |-> <<>>]
        ELSE IF ~FileExists(file_path) \/ \E i \in DOMAIN all : PhilHealthRowRaises(all[i])
        THEN [brackets |-> <<>>]
        ELSE [brackets |-> [i \in DOMAIN rows |->
                [min |-> rows[i].min, max |-> rows[i].max,
                 employee_rate |-> rows[i].rate, employee_fixed |-> rows[i].fixed]]]

parse_pagibig_file(file_path) ==
    LET all == FileRows(file_path)
        rows == SelectSeq(all, HasDash)
        maxes == SelectSeq(all, IsMaximum)
    IN  IF ~EndsWithCsv(file_path) THEN [brackets |-> <<>>, max_contribution |-> 10000]
        ELSE IF ~FileExists(file_path) \/ \E i \in DOMAIN all : PagibigRowRaises(all[i])
        THEN [brackets |-> <<>>, max_contribution |-> 10000]
        ELSE [brackets |-> [i \in DOMAIN rows |->
                [min |-> rows[i].min, max |-> rows[i].max, employee_rate |-> rows[i].rate]],
              max_contribution |-> IF maxes = <<>> THEN 10000 ELSE maxes[Len(maxes)].fixed]

parse_tax_file(file_path) ==
    LET all == FileRows(file_path)
    IN  IF ~EndsWithCsv(file_path) THEN [brackets |-> <<>>]
        ELSE IF ~FileExists(file_path) \/ \E i \in DOMAIN all : TaxRowRaises(all[i])
        THEN [brackets |-> <<>>]
        ELSE [brackets |-> all]

(* None (no brackets) for a file that does not exist or an unknown type. *)
parse_compliance_file(file_type, file_path) ==
    CASE ~FileExists(file_path) -> [brackets |-> <<>>]
      [] file_type = "SSS Contributions" -> parse_sss_file(file_path)
      [] file_type = "PhilHealth Rates" -> parse_philhealth_file(file_path)
      [] file_type = "Pag-IBIG Rates" -> parse_pagibig_file(file_path)
      [] file_type = "BIR Tax" -> parse_tax_file(file_path)
      [] OTHER -> [brackets |-> <<>>]

(* First bracket of a list that satisfies hit, 0 when none does. *)
FirstMatchOrLast(hits) ==
    IF hits = <<>> THEN 0
    ELSE IF \A i \in DOMAIN hits : ~hits[i] THEN Len(hits)
    ELSE CHOOSE i \in DOMAIN hits : hits[i] /\ \A j \in 1..(i - 1) : ~hits[j]
FirstMatch(hits) ==
    IF \A i \in DOMAIN hits : ~hits[i] THEN 0
    ELSE CHOOSE i \in DOMAIN hits : hits[i] /\ \A j \in 1..(i - 1) : ~hits[j]

(* ------------------- compliance deduction calculator -------------------- *)
(* Amounts in bp; the brackets of a parsed file are in centavos. *)
DefaultSSSExclusive(gross_pay) ==
    IF gross_pay < 32500000 THEN 1350000
    ELSE IF gross_pay <= 247500000 THEN Min(MulDiv(gross_pay, 45, 1000), 11250000)
    ELSE 11250000
DefaultSSS(gross_pay) ==
    IF gross_pay <= 32500000 THEN 1350000
    ELSE IF gross_pay <= 247500000 THEN Min(MulDiv(gross_pay, 45, 1000), 11250000)
    ELSE 11250000

DefaultPhilHealthUncapped(gross_pay) ==
    IF gross_pay <= 100000000 THEN 3000000 ELSE MulDiv(gross_pay, 3, 100)
DefaultPhilHealth(gross_pay) ==
    IF gross_pay <= 100000000 THEN 3000000
    ELSE IF gross_pay <= 800000000 THEN MulDiv(gross_pay, 3, 100)
    ELSE 24000000

DefaultPagibig(gross_pay) ==
    IF gross_pay <= 15000000 THEN MulDiv(gross_pay, 1, 100)
    ELSE Min(MulDiv(gross_pay, 2, 100), 1000000)

DefaultTaxExclusive(taxable) ==
    IF taxable < 208330000 THEN 0
    ELSE IF taxable < 333320000 THEN MulDiv(taxable - 208330000, 20, 100)
    ELSE IF taxable < 666660000 THEN 25000000 + MulDiv(taxable - 333320000, 25, 100)
    ELSE IF taxable < 1666660000 THEN 108330000 + MulDiv(taxable - 666660000, 30, 100)
    ELSE 408330000 + MulDiv(taxable - 1666660000, 32, 100)
DefaultTaxNoFloor(taxable) ==
    IF taxable <= 333320000 THEN MulDiv(taxable - 208330000, 20, 100)
    ELSE IF taxable <= 666660000 THEN 25000000 + MulDiv(taxable - 333320000, 25, 100)
    ELSE IF taxable <= 1666660000 THEN 108330000 + MulDiv(taxable - 666660000, 30, 100)
    ELSE 408330000 + MulDiv(taxable - 1666660000, 32, 100)
DefaultTax(taxable) ==
    IF taxable <= 208330000 THEN 0
    ELSE IF taxable <= 333320000 THEN MulDiv(taxable - 208330000, 20, 100)
    ELSE IF taxable <= 666660000 THEN 25000000 + MulDiv(taxable - 333320000, 25, 100)
    ELSE IF taxable <= 1666660000 THEN 108330000 + MulDiv(taxable - 666660000, 30, 100)
    ELSE 408330000 + MulDiv(taxable - 1666660000, 32, 100)

InRange(b, gross_pay) == b.min * 100 <= gross_pay /\ gross_pay <= b.max * 100

SSSDeductionNoFallback(row, gross_pay) ==
    Bind(parse_compliance_file("SSS Contributions", row.file_path), LAMBDA parsed :
    Bind(FirstMatch([k \in DOMAIN parsed.brackets |->
                        InRange(parsed.brackets[k], gross_pay)]), LAMBDA i :
        IF i = 0 THEN 0 ELSE parsed.brackets[i].employee_share * 100))

SSSDeduction(row, gross_pay) ==
    Bind(parse_compliance_file("SSS Contributions", row.file_path), LAMBDA parsed :
    Bind(FirstMatch([k \in DOMAIN parsed.brackets |->
                        InRange(parsed.brackets[k], gross_pay)]), LAMBDA i :
        IF row.file_path # "" /\ parsed.brackets # <<>>
        THEN (IF i = 0 THEN 0 ELSE parsed.brackets[i].employee_share * 100)
        ELSE DefaultSSS(gross_pay)))

PhilHealthDeduction(row, gross_pay) ==
    Bind(parse_compliance_file("PhilHealth Rates", row.file_path), LAMBDA parsed :
    Bind(FirstMatch([k \in DOMAIN parsed.brackets |->
                        InRange(parsed.brackets[k], gross_pay)]), LAMBDA i :
        IF row.file_path # "" /\ parsed.brackets # <<>>
        THEN (IF i = 0 THEN 0
              ELSE IF parsed.brackets[i].employee_fixed # 0
                   THEN parsed.brackets[i].employee_fixed * 100
              ELSE IF parsed.brackets[i].employee_rate # 0
                   THEN MulDiv(gross_pay, parsed.brackets[i].employee_rate, 10000)
              ELSE 0)
        ELSE DefaultPhilHealth(gross_pay)))

PagibigDeduction(row, gross_pay) ==
    Bind(parse_compliance_file("Pag-IBIG Rates", row.file_path), LAMBDA parsed :
    Bind(FirstMatch([k \in DOMAIN parsed.brackets |->
                        InRange(parsed.brackets[k], gross_pay)]), LAMBDA i :
        IF row.file_path # "" /\ parsed.brackets # <<>>
        THEN (IF i = 0 THEN 0
              ELSE IF parsed.brackets[i].employee_rate # 0
                   THEN Min(MulDiv(gross_pay, parsed.brackets[i].employee_rate, 10000),
                            parsed.max_contribution * 100)
              ELSE 0)
        ELSE DefaultPagibig(gross_pay)))

TaxDeduction(row, taxable) ==
    Bind(parse_compliance_file("BIR Tax", row.file_path), LAMBDA parsed :
    Bind(FirstMatch([k \in DOMAIN parsed.brackets |->
                        /\ parsed.brackets[k].from * 100 <= taxable
                        /\ taxable < parsed.brackets[k].to * 100]), LAMBDA i :
        IF row.file_path # "" /\ parsed.brackets # <<>>
        THEN (IF i = 0 THEN 0
              ELSE parsed.brackets[i].base_tax * 100
                    + MulDiv(taxable - parsed.brackets[i].from * 100,
                             parsed.brackets[i].rate, 10000))
        ELSE DefaultTax(taxable)))

(* The rows get_latest_compliance_file hands to the calculator, per type. *)
LatestFiles(today, tax, contrib) ==
    [t \in FileTypes |-> get_latest_compliance_file(t, today, tax, contrib)]

FileRow(rid, tax, contrib) == IF rid = NoRid THEN NoRow ELSE RowAt(rid, tax, contrib)

(* period_date is accepted and never read.  files is not part of the dict
   the code returns: it records which rows the four lookups handed over. *)
calculate_compliance_deductions(gross_pay, period_date, today, tax, contrib) ==
    Bind(LatestFiles(today, tax, contrib), LAMBDA files :
    Bind(SSSDeduction(FileRow(files["SSS Contributions"], tax, contrib), gross_pay),
    LAMBDA sss :
    Bind(PhilHealthDeduction(FileRow(files["PhilHealth Rates"], tax, contrib), gross_pay),
    LAMBDA philhealth :
    Bind(PagibigDeduction(FileRow(files["Pag-IBIG Rates"], tax, contrib), gross_pay),
    LAMBDA pagibig :
        [sss |-> sss, philhealth |-> philhealth, pagibig |-> pagibig,
         tax |-> TaxDeduction(FileRow(files["BIR Tax"], tax, contrib),
                              gross_pay - (sss + philhealth + pagibig)),
         files |-> files]))))

(* ------------------------------ timekeeping ----------------------------- *)
(* Clock times the timekeeping screen records (datetime.now().time()). *)
TimeIns == {0, 495}
TimeOuts == {1380}

NoAttendance ==
    [exists |-> FALSE, time_in |-> NULL, time_out |-> NULL, hours_worked |-> 0,
     regular_hours |-> 0, overtime_hours |-> 0, night_differential_hours |-> 0,
     late_minutes |-> 0, undertime_minutes |-> 0, is_holiday |-> FALSE,
     is_rest_day |-> FALSE, status |-> "PRESENT"]

(* bool() of a TIME column as the connector returns it: None is falsy, and
   so is timedelta(0), the value of 00:00:00. *)
Truthy(t) == t # NULL /\ t # 0

(* round(minutes / 60.0, 2) in hundredths of an hour; a third never ties. *)
HoursOf(minutes) == (2 * (minutes * 5) + 3) \div 6

calculate_hours_worked(t_in, t_out) ==
    HoursOf((IF t_out < t_in THEN t_out + 1440 ELSE t_out) - t_in)

calculate_late_minutes(t_in, scheduled_start) ==
    IF t_in > scheduled_start THEN t_in - scheduled_start ELSE 0

calculate_undertime_minutes(t_out, scheduled_end) ==
    IF t_out < scheduled_end THEN scheduled_end - t_out ELSE 0

calculate_overtime_hours(t_out, scheduled_end, regular_hours) ==
    LET out == IF t_out < scheduled_end THEN t_out + 1440 ELSE t_out
    IN  IF out > scheduled_end THEN Max(0, HoursOf(out - scheduled_end)) ELSE 0

is_night_differential_time(check_time, night_start, night_end) ==
    IF night_start > night_end
    THEN check_time >= night_start \/ check_time < night_end
    ELSE night_start <= check_time /\ check_time < night_end

calculate_night_differential_hours(t_in, t_out, night_start, night_end) ==
    LET out == IF t_out < t_in THEN t_out + 1440 ELSE t_out
        steps == {k \in 0..24 : t_in + 60 * k < out}
        night == {k \in steps :
                    is_night_differential_time((t_in + 60 * k) % 1440,
                                               night_differential_start,
                                               night_differential_end)}
    IN  Min(Cardinality(night) * 100, HoursOf(out - t_in))

(* The row time_out writes over the row time_in created. *)
TimedOutRow(row, t_out) ==
    LET total_hours == calculate_hours_worked(row.time_in, t_out)
        late_minutes == calculate_late_minutes(row.time_in, regular_work_start_time)
        regular_hours == Min(total_hours, regular_work_hours_per_day)
    IN  [row EXCEPT
            !.time_out = t_out,
            !.hours_worked = total_hours,
            !.regular_hours = regular_hours,
            !.overtime_hours =
                calculate_overtime_hours(t_out, regular_work_end_time, regular_hours),
            !.night_differential_hours =
                calculate_night_differential_hours(row.time_in, t_out,
                    night_differential_start, night_differential_end),
            !.late_minutes = late_minutes,
            !.undertime_minutes =
                calculate_undertime_minutes(t_out, regular_work_end_time),
            !.status = IF late_minutes > 0 THEN "LATE" ELSE "PRESENT"]

(* ------------------------ pay component calculator ---------------------- *)
(* Pay profiles an HR edit can store; hourly_rate and base_salary in
   centavos, base_salary NULL for a profile that was never filled in. *)
Profiles ==
    { [base_salary |-> 3000000, hourly_rate |-> 0, salary_type |-> "MONTHLY"],
      [base_salary |-> 0, hourly_rate |-> 50000, salary_type |-> "HOURLY"],
      [base_salary |-> NULL, hourly_rate |-> 0, salary_type |-> "MONTHLY"] }

calculate_hourly_rate_with_floor(base_salary, salary_type) ==
    IF base_salary = 0 THEN 100
    ELSE IF salary_type = "HOURLY" THEN base_salary * 100
    ELSE IF salary_type = "DAILY" THEN MulDiv(base_salary, 100, 8)
    ELSE MulDiv(base_salary, 100, 176)

(* Hourly rate in bp per hour from a salary in centavos. *)
calculate_hourly_rate_from_salary(base_salary, salary_type) ==
    IF salary_type = "HOURLY" THEN base_salary * 100
    ELSE IF salary_type = "DAILY" THEN MulDiv(base_salary, 100, 8)
    ELSE MulDiv(base_salary, 100, 176)

(* get_attendance_for_period: the rows of the period with status PRESENT or
   LATE, in date order. *)
get_attendance_for_period(employee_id, start_date, end_date, att) ==
    LET all == [i \in 1..(end_date - start_date + 1) |-> att[employee_id][start_date + i - 1]]
        Counted(row) == row.exists /\ row.status \in {"PRESENT", "LATE"}
    IN  SelectSeq(all, Counted)

Total(records, field) == SumSeq([i \in DOMAIN records |-> records[i][field]])
TotalWhere(records, flag, field) ==
    SumSeq([i \in DOMAIN records |-> IF records[i][flag] THEN records[i][field] ELSE 0])

(* hours (hundredths) * rate (bp per hour) * multiplier (hundredths), in bp *)
Pay(hours, hourly_rate, multiplier) == MulDiv(MulDiv(hourly_rate, hours, 100), multiplier, 100)

GrossOf(basic_pay, overtime_pay, night_differential_pay, holiday_pay, rest_day_pay) ==
    basic_pay + overtime_pay + night_differential_pay + holiday_pay + rest_day_pay + 0 + 0
        + 0 + 0

NetOfGross(gross_pay, total_deductions) == Round2(gross_pay)
NetOf(gross_pay, total_deductions) == Round2(gross_pay - total_deductions)

(* The local variables of calculate_payroll_for_employee before rounding:
   the rate, the totals over the attendance rows and the pay components. *)
Unrounded(employee, records) ==
    Bind(IF employee.hourly_rate > 0 THEN employee.hourly_rate * 100
         ELSE calculate_hourly_rate_from_salary(employee.base_salary, employee.salary_type),
         LAMBDA hourly_rate :
            [basic_pay |-> MulDiv(hourly_rate, Total(records, "regular_hours"), 100),
             overtime_pay |->
                Pay(Total(records, "overtime_hours"), hourly_rate, overtime_rate_multiplier),
             night_differential_pay |->
                Pay(Total(records, "night_differential_hours"), hourly_rate,
                    night_differential_rate),
             holiday_pay |->
                Pay(TotalWhere(records, "is_holiday", "regular_hours"), hourly_rate,
                    holiday_rate_multiplier),
             rest_day_pay |->
                Pay(TotalWhere(records, "is_rest_day", "regular_hours"), hourly_rate,
                    rest_day_rate_multiplier),
             late_deduction |-> MulDiv(hourly_rate, Total(records, "late_minutes"), 60),
             undertime_deduction |->
                MulDiv(hourly_rate, Total(records, "undertime_minutes"), 60)])

(* The payroll_data dict: every amount rounded to two places on its own. *)
PayrollData(employee_id, period_id, u, gross_pay, d, total_deductions) ==
    [raised |-> FALSE,
     employee_id |-> employee_id,
     payroll_period_id |-> period_id,
     basic_pay |-> Round2(u.basic_pay),
     overtime_pay |-> Round2(u.overtime_pay),
     allowances |-> 0,
     holiday_pay |-> Round2(u.holiday_pay),
     vacation_sickleave |-> 0,
     salary_adjustment |-> 0,
     incentive_pay |-> 0,
     night_differential_pay |-> Round2(u.night_differential_pay),
     rest_day_pay |-> Round2(u.rest_day_pay),
     gross_pay |-> Round2(gross_pay),
     sss_contrib |-> Round2(d.sss),
     philhealth_contrib |-> Round2(d.philhealth),
     pagibig_contrib |-> Round2(d.pagibig),
     withholding_tax |-> Round2(d.tax),
     late_deduction |-> Round2(u.late_deduction),
     cash_advance |-> 0,
     undertime_deduction |-> Round2(u.undertime_deduction),
     other_deductions |-> 0,
     total_deductions |-> Round2(total_deductions),
     net_pay |-> NetOf(gross_pay, total_deductions),
     status |-> "PENDING"]

(* raised: get_employee_by_id found no row (ValueError) or float(None) on a
   NULL base_salary (TypeError). *)
calculate_payroll_for_employee(employee_id, period_id, start_date, end_date, emps, att, today, tax, contrib) ==
    IF ~emps[employee_id].exists \/ emps[employee_id].base_salary = NULL
    THEN [raised |-> TRUE]
    ELSE
    Bind(get_attendance_for_period(employee_id, start_date, end_date, att),
    LAMBDA records :
    Bind(Unrounded(emps[employee_id], records),
    LAMBDA u :
    Bind(GrossOf(u.basic_pay, u.overtime_pay, u.night_differential_pay, u.holiday_pay,
                 u.rest_day_pay),
    LAMBDA gross_pay :
    (* period_date = period['start_date'] *)
    Bind(calculate_compliance_deductions(gross_pay, start_date, today, tax, contrib),
    LAMBDA d :
        PayrollData(employee_id, period_id, u, gross_pay, d,
            d.sss + d.philhealth + d.pagibig + d.tax + u.late_deduction + 0
                + u.undertime_deduction + 0)))))

(* ------------------------------- state ---------------------------------- *)
VARIABLES
    today,                  \* CURDATE() / date.today()
    employees,              \* employees table: id -> row
    attendance,             \* attendance table: employee -> date -> row
    tax_tables,             \* tax_tables rows in id order
    contribution_tables,    \* contribution_tables rows in id order
    payroll_entries,        \* payroll_entries rows in id order
    history,                \* payroll_transaction_history rows in id order
    run,                    \* per operator: position inside compute_payroll_period
    results,                \* per operator: what compute_payroll_period returned last
    dirty,                  \* per employee: pay inputs edited since the last entry write
    saves,                  \* per employee: completed _save_payroll_entry calls
    ops,                    \* edits made so far (bounded by MaxOps)
    faults,                 \* store failures so far: .save in a save, .log[e] in a
                            \* history insert for employee e (bounded by MaxFaults)
    runs,                   \* payroll runs started so far (bounded by MaxRuns)
    salary_history,         \* salary_history rows in id order
    payroll_periods,        \* payroll_periods.status by period id
    users,                  \* users rows in id order
    ret                     \* what the last call made from a screen returned

vars == <<today, employees, attendance, tax_tables, contribution_tables,
          payroll_entries, history, run, results, dirty, saves, ops, faults, runs,
          salary_history, payroll_periods, users, ret>>

Idle == [pc |-> "idle"]
NoResults == [returned |-> FALSE]
NoCall == [op |-> "none"]

Init ==
    /\ today = 1
    /\ employees =
        [e \in Emp |->
            IF e = 1
            THEN [exists |-> TRUE, is_active |-> TRUE, base_salary |-> 3000000,
                  hourly_rate |-> 0, salary_type |-> "MONTHLY"]
            ELSE [exists |-> TRUE, is_active |-> TRUE, base_salary |-> 0,
                  hourly_rate |-> 50000, salary_type |-> "HOURLY"]]
    /\ attendance =
        [e \in Emp |-> [d \in Days |->
            IF e = 1 /\ d = 1
            THEN [NoAttendance EXCEPT !.exists = TRUE, !.time_in = 495,
                                      !.status = "PRESENT"]
            ELSE NoAttendance]]
    /\ tax_tables = <<>>
    /\ contribution_tables = <<>>
    /\ payroll_entries = <<>>
    /\ payroll_periods = [p \in Periods |-> "OPEN"]
    /\ history = <<>>
    /\ run = [o \in Operators |-> Idle]
    /\ results = [o \in Operators |-> NoResults]
    /\ dirty = [e \in Emp |-> FALSE]
    /\ saves = [e \in Emp |-> 0]
    /\ ops = 0
    /\ faults = [save |-> 0, log |-> [e \in Emp |-> 0]]
    /\ runs = 0
    /\ salary_history = <<>>
    /\ users = <<>>
    /\ ret = NoCall

FaultCount == faults.save + SumSeq([e \in 1..Cardinality(Emp) |-> faults.log[e]])


(* ------------------------- environment operations ----------------------- *)
AdvanceDay ==
    /\ today + 1 \in Days
    /\ today' = today + 1
    /\ UNCHANGED <<users, payroll_periods, ret, salary_history, employees, attendance, tax_tables,
                   contribution_tables, payroll_entries, history, run, results, dirty,
                   saves, ops, faults, runs>>

Edit(e) ==
    /\ ops < MaxOps
    /\ ops' = ops + 1
    /\ dirty' = [x \in Emp |-> IF x \in e THEN TRUE ELSE dirty[x]]

(* if existing: if existing[1]: return False, ... *)
TimeInAllowed(row) == ~(row.exists /\ Truthy(row.time_in))

(* if not attendance or not attendance['time_in']: return False, ...
   if attendance['time_out']: return False, ... *)
TimeOutAllowed(row) == row.exists /\ Truthy(row.time_in) /\ ~Truthy(row.time_out)

(* The UPDATE of the row found, or the INSERT of a new one. *)
TimeInRow(existing, time_in_time) ==
    [existing EXCEPT !.exists = TRUE, !.time_in = time_in_time, !.status = "PRESENT"]

(* A call that writes: (True, "Time-in recorded successfully.") *)
RecordTimeIn(employee_id, time_in_time) ==
    /\ TimeInAllowed(attendance[employee_id][today])
    /\ attendance' = [attendance EXCEPT ![employee_id][today] =
            TimeInRow(attendance[employee_id][today], time_in_time)]
    /\ ret' = [op |-> "time_in", employee_id |-> employee_id, ok |-> TRUE]
    /\ UNCHANGED <<users, payroll_periods, salary_history, today, employees, tax_tables, contribution_tables,
                   payroll_entries, history, run, results, saves, faults, runs>>

RecordTimeOut(employee_id, time_out_time) ==
    /\ TimeOutAllowed(attendance[employee_id][today])
    /\ attendance' = [attendance EXCEPT ![employee_id][today] =
            TimedOutRow(attendance[employee_id][today], time_out_time)]
    /\ ret' = [op |-> "time_out", employee_id |-> employee_id, ok |-> TRUE]
    /\ UNCHANGED <<users, payroll_periods, salary_history, today, employees, tax_tables, contribution_tables,
                   payroll_entries, history, run, results, saves, faults, runs>>

time_in(employee_id, time_in_time) ==
    /\ RecordTimeIn(employee_id, time_in_time)
    /\ Edit({employee_id})

time_out(employee_id, time_out_time) ==
    /\ RecordTimeOut(employee_id, time_out_time)
    /\ Edit({employee_id})

(* The timekeeping screen used all day long: the calls that write ... *)
time_in_again(employee_id, time_in_time) ==
    /\ RecordTimeIn(employee_id, time_in_time)
    /\ UNCHANGED <<dirty, ops>>

time_out_again(employee_id, time_out_time) ==
    /\ RecordTimeOut(employee_id, time_out_time)
    /\ UNCHANGED <<dirty, ops>>

(* ... and the calls that return (False, message) and write nothing. *)
time_in_refused(employee_id, time_in_time) ==
    /\ ~TimeInAllowed(attendance[employee_id][today])
    /\ ret' = [op |-> "time_in", employee_id |-> employee_id, ok |-> FALSE]
    /\ UNCHANGED <<users, payroll_periods, salary_history, today, employees, attendance, tax_tables,
                   contribution_tables, payroll_entries, history, run, results, dirty,
                   saves, ops, faults, runs>>

time_out_refused(employee_id, time_out_time) ==
    /\ ~TimeOutAllowed(attendance[employee_id][today])
    /\ ret' = [op |-> "time_out", employee_id |-> employee_id, ok |-> FALSE]
    /\ UNCHANGED <<users, payroll_periods, salary_history, today, employees, attendance, tax_tables,
                   contribution_tables, payroll_entries, history, run, results, dirty,
                   saves, ops, faults, runs>>

(* HR marks a recorded day as a holiday or a rest day. *)
update_attendance(employee_id, d, field) ==
    /\ attendance[employee_id][d].exists
    /\ ~attendance[employee_id][d][field]
    /\ attendance' = [attendance EXCEPT ![employee_id][d][field] = TRUE]
    /\ Edit({employee_id})
    /\ UNCHANGED <<users, payroll_periods, ret, salary_history, today, employees, tax_tables, contribution_tables,
                   payroll_entries, history, run, results, saves, faults, runs>>

update_employee(employee_id, profile, is_active) ==
    LET row == [exists |-> TRUE, is_active |-> is_active,
                base_salary |-> profile.base_salary,
                hourly_rate |-> profile.hourly_rate,
                salary_type |-> profile.salary_type]
    IN  /\ employees[employee_id] # row
        /\ employees' = [employees EXCEPT ![employee_id] = row]
        /\ Edit({employee_id})
        /\ UNCHANGED <<users, payroll_periods, ret, salary_history, today, attendance, tax_tables, contribution_tables,
                       payroll_entries, history, run, results, saves, faults, runs>>

(* ---------------------------- salary changes --------------------------- *)
MaxSalaryChanges == 2

(* New base salaries in centavos. *)
SalaryInputs == {2500000, 3500000}

(* The SELECT finds the employee and float(result['base_salary']) returns. *)
SalaryReadable(employee_id) ==
    /\ employee_id \in Emp
    /\ employees[employee_id].exists
    /\ employees[employee_id].base_salary # NULL

(* The UPDATE and the INSERT committed together; audit_ok is whether the
   log_audit call after the commit returned, and with it the return value. *)
update_employee_salary(employee_id, new_salary, audit_ok) ==
    /\ Len(salary_history) < MaxSalaryChanges
    /\ SalaryReadable(employee_id)
    /\ employees' = [employees EXCEPT ![employee_id].base_salary = new_salary]
    /\ salary_history' = Append(salary_history,
            [employee_id |-> employee_id,
             old_salary |-> employees[employee_id].base_salary,
             new_salary |-> new_salary])
    /\ dirty' = [dirty EXCEPT ![employee_id] = TRUE]
    /\ ret' = [op |-> "update_employee_salary", employee_id |-> employee_id,
               ok |-> audit_ok]
    /\ UNCHANGED <<users, payroll_periods, today, attendance, tax_tables, contribution_tables,
                   payroll_entries,
                   history, run, results, saves, ops, faults, runs>>

(* if not result: return False, or float(None) raising before any write. *)
update_employee_salary_failed(employee_id, new_salary) ==
    /\ ~SalaryReadable(employee_id)
    /\ ret' = [op |-> "update_employee_salary", employee_id |-> employee_id,
               ok |-> FALSE]
    /\ UNCHANGED <<users, payroll_periods, salary_history, today, employees, attendance, tax_tables,
                   contribution_tables, payroll_entries, history, run, results, dirty,
                   saves, ops, faults, runs>>

InsertRateRow(file_type, file_path, effective_from) ==
    LET db_type == DbType(file_type)
        version == NextVersion(db_type, tax_tables, contribution_tables)
    IN  /\ IF db_type = "TAX"
           THEN /\ tax_tables' = Append(tax_tables,
                        [effective_from |-> effective_from, version |-> version,
                         file_path |-> file_path])
                /\ UNCHANGED contribution_tables
           ELSE /\ contribution_tables' = Append(contribution_tables,
                        [type |-> db_type, effective_from |-> effective_from,
                         version |-> version, file_path |-> file_path])
                /\ UNCHANGED tax_tables
        /\ UNCHANGED <<users, payroll_periods, ret, salary_history, today, employees, attendance, payroll_entries, history,
                       run, results, saves, faults, runs>>

upload_compliance_file(file_type, file_path, effective_from) ==
    /\ InsertRateRow(file_type, file_path, effective_from)
    /\ Edit(Emp)

(* The same upload on the Compliance screen, one after another. *)
upload_compliance_file_again(file_type, file_path, effective_from) ==
    /\ Len(tax_tables) + Len(contribution_tables) < MaxUploads
    /\ InsertRateRow(file_type, file_path, effective_from)
    /\ UNCHANGED <<dirty, ops>>

(* ------------------- payroll entry upsert and history ------------------- *)
(* The columns _save_payroll_entry writes; payroll_entries has no column
   for night_differential_pay or rest_day_pay. *)
StoredRow(d) ==
    [payroll_period_id |-> d.payroll_period_id, employee_id |-> d.employee_id,
     basic_pay |-> d.basic_pay, overtime_pay |-> d.overtime_pay,
     allowances |-> d.allowances, holiday_pay |-> d.holiday_pay,
     vacation_sickleave |-> d.vacation_sickleave,
     salary_adjustment |-> d.salary_adjustment, incentive_pay |-> d.incentive_pay,
     gross_pay |-> d.gross_pay, sss_contrib |-> d.sss_contrib,
     philhealth_contrib |-> d.philhealth_contrib, pagibig_contrib |-> d.pagibig_contrib,
     withholding_tax |-> d.withholding_tax, late_deduction |-> d.late_deduction,
     cash_advance |-> d.cash_advance, undertime_deduction |-> d.undertime_deduction,
     other_deductions |-> d.other_deductions, total_deductions |-> d.total_deductions,
     net_pay |-> d.net_pay, status |-> d.status]

(* SELECT id, gross_pay, net_pay, status ... WHERE payroll_period_id = %s AND
   employee_id = %s; fetchone(): the first matching id, 0 for no row. *)
ExistingEntry(period_id, employee_id, entries) ==
    LET ids == {i \in DOMAIN entries :
                    /\ entries[i].payroll_period_id = period_id
                    /\ entries[i].employee_id = employee_id}
    IN  IF ids = {} THEN 0 ELSE CHOOSE i \in ids : \A j \in ids : i <= j

(* UPDATE payroll_entries SET ... WHERE id = %s / INSERT INTO payroll_entries *)
WriteEntry(entries, existing_id, d) ==
    IF existing_id # 0
    THEN [entries EXCEPT ![existing_id] = StoredRow(d)]
    ELSE Append(entries, StoredRow(d))

(* The record log_payroll_transaction inserts. *)
HistoryRecordCreated(entry_id, d, transaction_type, previous_status, previous_gross_pay, previous_net_pay) ==
    [payroll_entry_id |-> entry_id, payroll_period_id |-> d.payroll_period_id,
     employee_id |-> d.employee_id, transaction_type |-> "CREATED",
     previous_status |-> previous_status, new_status |-> d.status,
     previous_gross_pay |-> previous_gross_pay, new_gross_pay |-> d.gross_pay,
     previous_net_pay |-> previous_net_pay, new_net_pay |-> d.net_pay]
HistoryRecord(entry_id, d, transaction_type, previous_status, previous_gross_pay, previous_net_pay) ==
    [payroll_entry_id |-> entry_id, payroll_period_id |-> d.payroll_period_id,
     employee_id |-> d.employee_id, transaction_type |-> transaction_type,
     previous_status |-> previous_status, new_status |-> d.status,
     previous_gross_pay |-> previous_gross_pay, new_gross_pay |-> d.gross_pay,
     previous_net_pay |-> previous_net_pay, new_net_pay |-> d.net_pay]

log_payroll_transaction_replacing(hist, record) ==
    IF hist = <<>> THEN <<record>> ELSE [hist EXCEPT ![Len(hist)] = record]
log_payroll_transaction(hist, record) == Append(hist, record)

(* --------------------------- period orchestrator ------------------------ *)
RECURSIVE Ascending(_)
Ascending(S) ==
    IF S = {} THEN <<>>
    ELSE LET m == CHOOSE x \in S : \A y \in S : x <= y
         IN  <<m>> \o Ascending(S \ {m})

(* SELECT id FROM employees WHERE is_active = 1 *)
ActiveEmployees == {e \in Emp : employees[e].exists /\ employees[e].is_active}

(* results and the loop variable before the first iteration. *)
LoopStart(period_id) ==
    [period_id |-> period_id,
     start_date |-> PeriodRow(period_id).start_date,
     end_date |-> PeriodRow(period_id).end_date,
     employees |-> Ascending(ActiveEmployees),
     total_employees |-> Cardinality(ActiveEmployees),
     computed |-> 0, computed_ids |-> <<>>, errors |-> <<>>]

(* except Exception: results['errors'].append(...), and on to the next. *)
OnErrorStop(r, employee_id) ==
    [r EXCEPT !.errors = Append(@, employee_id), !.employees = <<>>]
OnError(r, employee_id) ==
    [r EXCEPT !.errors = Append(@, employee_id), !.employees = Tail(@)]

(* results['computed'] += 1, and on to the next. *)
OnComputed(r, employee_id) ==
    [r EXCEPT !.computed = @ + 1, !.computed_ids = Append(@, employee_id),
              !.employees = Tail(@)]

(* _save_payroll_entry as one call: select, write, commit, log.  log_ok =
   FALSE: log_payroll_transaction raises, the exception is logged and
   dropped, and entry_id is returned all the same. *)
save_payroll_entry_undone(entries, hist, d, log_ok) ==
    LET existing == ExistingEntry(d.payroll_period_id, d.employee_id, entries)
    IN  [entries |-> IF log_ok THEN WriteEntry(entries, existing, d) ELSE entries,
         history |-> hist,
         entry_id |-> IF existing # 0 THEN existing ELSE Len(entries) + 1]
save_payroll_entry(entries, hist, d, log_ok) ==
    LET existing == ExistingEntry(d.payroll_period_id, d.employee_id, entries)
        entry_id == IF existing # 0 THEN existing ELSE Len(entries) + 1
        record ==
            IF existing # 0
            THEN HistoryRecord(entry_id, d, "UPDATED", entries[existing].status,
                               entries[existing].gross_pay, entries[existing].net_pay)
            ELSE HistoryRecord(entry_id, d, "CREATED", "None", NULL, NULL)
    IN  [entries |-> WriteEntry(entries, existing, d),
         history |-> IF log_ok THEN log_payroll_transaction(hist, record) ELSE hist,
         entry_id |-> entry_id]

(* What happens to each employee of a run: "ok", "save" (the store raises in
   _save_payroll_entry before the commit) or "log" (the history insert
   raises). *)
Outcomes == {"ok", "save", "log"}

(* One iteration of the for loop of compute_payroll_period on st, which
   carries results, the rest of the employee list and the two tables the
   loop writes. *)
Iteration(st, e, outcome) ==
    Bind(calculate_payroll_for_employee(e, st.r.period_id, st.r.start_date,
            st.r.end_date, employees, attendance, today, tax_tables, contribution_tables),
    LAMBDA d :
        IF d.raised \/ outcome = "save"
        THEN [st EXCEPT !.r = OnError(@, e)]
        ELSE Bind(save_payroll_entry(st.entries, st.history, d, outcome # "log"),
             LAMBDA saved :
                [r |-> OnComputed(st.r, e), entries |-> saved.entries,
                 history |-> saved.history]))

RECURSIVE ComputeLoop(_, _)
ComputeLoop(st, outcome) ==
    IF st.r.employees = <<>> THEN st
    ELSE Bind(Iteration(st, Head(st.r.employees), outcome[Head(st.r.employees)]),
              LAMBDA next : ComputeLoop(next, outcome))

Raises(e, period_id) ==
    calculate_payroll_for_employee(e, period_id, PeriodRow(period_id).start_date,
        PeriodRow(period_id).end_date, employees, attendance, today, tax_tables,
        contribution_tables).raised

Returned(r) ==
    [returned |-> TRUE, period_id |-> r.period_id,
     total_employees |-> r.total_employees, computed |-> r.computed,
     computed_ids |-> r.computed_ids, errors |-> r.errors]

InSeq(x, q) == \E i \in DOMAIN q : q[i] = x

(* payroll_periods.status ENUM *)
PeriodStatuses == {"OPEN", "PROCESSED", "SUBMITTED", "APPROVED", "REJECTED"}

PeriodsAfterRunProcessed(periods, period_id) ==
    [periods EXCEPT ![period_id] = "PROCESSED"]

(* The payroll_periods table after a run: the run's only statement on it is
   SELECT * FROM payroll_periods WHERE id = %s. *)
PeriodsAfterRun(periods, period_id) == periods

(* compute_payroll_period(period_id), called by the Run Payroll button. *)
compute_payroll_period(period_id, outcome) ==
    /\ runs < MaxRuns
    /\ \A e \in Emp : outcome[e] # "ok" => e \in ActiveEmployees /\ ~Raises(e, period_id)
    /\ FaultCount + Cardinality({e \in Emp : outcome[e] # "ok"}) <= MaxFaults
    /\ runs' = runs + 1
    /\ faults' = [save |-> faults.save + Cardinality({e \in Emp : outcome[e] = "save"}),
                   log |-> [e \in Emp |-> IF outcome[e] = "log" THEN faults.log[e] + 1
                                          ELSE faults.log[e]]]
    /\ \E start \in {[r |-> LoopStart(period_id), entries |-> payroll_entries,
                      history |-> history]} :
       \E st \in {ComputeLoop(start, outcome)} :
        /\ payroll_entries' = st.entries
        /\ history' = st.history
        /\ results' = [results EXCEPT ![1] = Returned(st.r)]
        /\ saves' = [e \in Emp |-> IF InSeq(e, st.r.computed_ids) THEN saves[e] + 1
                                   ELSE saves[e]]
        /\ dirty' = [e \in Emp |-> IF InSeq(e, st.r.computed_ids) THEN FALSE ELSE dirty[e]]
    /\ payroll_periods' = PeriodsAfterRun(payroll_periods, period_id)
    /\ UNCHANGED <<users, ret, salary_history, today, employees, attendance, tax_tables,
                   contribution_tables, run, ops>>

(* get_connection() raises on the first statement of compute_payroll_period
   (the store is unreachable when the button is pressed): nothing catches
   it, the caller gets the exception and no result. *)
BatchRaised == [returned |-> FALSE, raised |-> TRUE]

compute_payroll_period_unreachable(period_id) ==
    /\ runs < MaxRuns
    /\ FaultCount < MaxFaults
    /\ runs' = runs + 1
    /\ faults' = [faults EXCEPT !.save = @ + 1]
    /\ results' = [results EXCEPT ![1] = BatchRaised]
    /\ UNCHANGED <<users, payroll_periods, ret, salary_history, today, employees, attendance, tax_tables,
                   contribution_tables, payroll_entries, history, run, dirty, saves, ops>>

(* ---- the same run in the steps another desktop can interleave with ----- *)
RunStart(o, period_id) ==
    /\ run[o].pc = "idle"
    /\ runs < MaxRacingRuns
    /\ runs' = runs + 1
    /\ run' = [run EXCEPT ![o] = [pc |-> "calc", r |-> LoopStart(period_id)]]
    /\ UNCHANGED <<users, payroll_periods, ret, salary_history, today, employees, attendance, tax_tables, contribution_tables,
                   payroll_entries, history, results, dirty, saves, ops, faults>>

(* One iteration up to the SELECT of _save_payroll_entry. *)
RunCalc(o, save_ok) ==
    /\ run[o].pc = "calc"
    /\ run[o].r.employees # <<>>
    /\ \E r \in {run[o].r} :
       \E e \in {Head(r.employees)} :
       \E d \in {calculate_payroll_for_employee(e, r.period_id, r.start_date, r.end_date,
                    employees, attendance, today, tax_tables, contribution_tables)} :
       \E existing \in {ExistingEntry(r.period_id, e, payroll_entries)} :
        /\ save_ok \/ (~d.raised /\ FaultCount < MaxFaults)
        /\ IF d.raised \/ ~save_ok
           THEN run' = [run EXCEPT ![o].r = OnError(r, e)]
           ELSE run' = [run EXCEPT ![o] =
                    [pc |-> "write", r |-> r, payroll_data |-> d, existing |-> existing,
                     previous |->
                        IF existing = 0
                        THEN [status |-> "None", gross_pay |-> NULL, net_pay |-> NULL]
                        ELSE [status |-> payroll_entries[existing].status,
                              gross_pay |-> payroll_entries[existing].gross_pay,
                              net_pay |-> payroll_entries[existing].net_pay],
                     entry_id |-> 0]]
    /\ faults' = IF save_ok THEN faults ELSE [faults EXCEPT !.save = @ + 1]
    /\ UNCHANGED <<users, payroll_periods, ret, salary_history, today, employees, attendance, tax_tables, contribution_tables,
                   payroll_entries, history, results, dirty, saves, ops, runs>>

RunWriteNotCommitted(o) ==
    /\ run[o].pc = "write"
    /\ run' = [run EXCEPT ![o].pc = "log",
                          ![o].entry_id = IF run[o].existing # 0 THEN run[o].existing
                                          ELSE Len(payroll_entries) + 1]
    /\ UNCHANGED <<users, payroll_periods, ret, salary_history, today, employees,
                   attendance, tax_tables, contribution_tables, payroll_entries, history,
                   results, dirty, saves, ops, faults, runs>>

(* The UPDATE or INSERT and its commit. *)
RunWrite(o) ==
    LET e == Head(run[o].r.employees)
    IN  /\ run[o].pc = "write"
        /\ payroll_entries' =
                WriteEntry(payroll_entries, run[o].existing, run[o].payroll_data)
        /\ run' = [run EXCEPT ![o].pc = "log",
                              ![o].entry_id =
                                    IF run[o].existing # 0 THEN run[o].existing
                                    ELSE Len(payroll_entries) + 1]
        /\ saves' = [saves EXCEPT ![e] = @ + 1]
        /\ dirty' = [dirty EXCEPT ![e] = FALSE]
        /\ UNCHANGED <<users, payroll_periods, ret, salary_history, today, employees, attendance, tax_tables, contribution_tables,
                       history, results, ops, faults, runs>>

(* log_payroll_transaction inside try/except, return entry_id, and
   results['computed'] += 1. *)
RunLog(o, log_ok) ==
    LET e == Head(run[o].r.employees)
        record ==
            HistoryRecord(run[o].entry_id, run[o].payroll_data,
                IF run[o].existing # 0 THEN "UPDATED" ELSE "CREATED",
                run[o].previous.status, run[o].previous.gross_pay,
                run[o].previous.net_pay)
    IN  /\ run[o].pc = "log"
        /\ log_ok \/ FaultCount < MaxFaults
        /\ faults' = IF log_ok THEN faults ELSE [faults EXCEPT !.log[e] = @ + 1]
        /\ history' = IF log_ok THEN log_payroll_transaction(history, record) ELSE history
        /\ run' = [run EXCEPT ![o] = [pc |-> "calc", r |-> OnComputed(run[o].r, e)]]
        /\ UNCHANGED <<users, payroll_periods, ret, salary_history, today, employees, attendance, tax_tables, contribution_tables,
                       payroll_entries, results, dirty, saves, ops, runs>>

(* return results *)
RunReturn(o) ==
    /\ run[o].pc = "calc"
    /\ run[o].r.employees = <<>>
    /\ results' = [results EXCEPT ![o] = Returned(run[o].r)]
    /\ run' = [run EXCEPT ![o] = Idle]
    /\ UNCHANGED <<users, payroll_periods, ret, salary_history, today, employees, attendance, tax_tables, contribution_tables,
                   payroll_entries, history, dirty, saves, ops, faults, runs>>

(* --------------------------- accountant screens ------------------------- *)
SetStatus(entries, ids, status) ==
    [i \in DOMAIN entries |->
        IF i \in ids THEN [entries[i] EXCEPT !.status = status] ELSE entries[i]]

(* WHERE status = 'PENDING' *)
Pending(entries) == {i \in DOMAIN entries : entries[i].status = "PENDING"}

(* WHERE payroll_period_id = %s *)
InPeriod(entries, period_id) ==
    {i \in DOMAIN entries : entries[i].payroll_period_id = period_id}

StatusOnly ==
    UNCHANGED <<users, payroll_periods, ret, salary_history, today, employees, attendance, tax_tables, contribution_tables,
                history, run, results, dirty, saves, ops, faults, runs>>

(* UPDATE payroll_entries SET status = 'PENDING' WHERE payroll_period_id = %s *)
submit_payroll(period_id) ==
    /\ payroll_entries' =
            SetStatus(payroll_entries, InPeriod(payroll_entries, period_id), "PENDING")
    /\ StatusOnly

approve_all ==
    /\ payroll_entries' = SetStatus(payroll_entries, Pending(payroll_entries), "VERIFIED")
    /\ StatusOnly

reject_payroll ==
    /\ payroll_entries' = SetStatus(payroll_entries, Pending(payroll_entries), "REJECTED")
    /\ StatusOnly

(* 'REVISION_REQUESTED' is not a member of the status ENUM: in strict SQL
   mode the statement fails and nothing changes, otherwise the column takes
   the empty string. *)
request_revision ==
    /\ \/ payroll_entries' = payroll_entries
       \/ payroll_entries' = SetStatus(payroll_entries, Pending(payroll_entries), "")
    /\ StatusOnly

(* ------------------------------ passwords ------------------------------ *)
(* A password is fill_len times the character "x" followed by tail, a
   string over "a" and "b": long passwords without long sequences. *)
MaxTail == 2
Tails == UNION { [1..n -> {"a", "b"}] : n \in 0..MaxTail }
Passwords == { [fill_len |-> n, tail |-> t] : n \in {0, 71, 72}, t \in Tails }
NoPassword == [fill_len |-> 0, tail |-> <<>>]

(* len(plain.encode("utf-8")) *)
ByteLen(plain) == plain.fill_len + Len(plain.tail)

(* bcrypt reads the first 72 bytes of a password. *)
BcryptBytes == 72
Truncated(plain) ==
    IF plain.fill_len >= BcryptBytes THEN [fill_len |-> BcryptBytes, tail |-> <<>>]
    ELSE [fill_len |-> plain.fill_len,
          tail |-> SubSeq(plain.tail, 1, Min(Len(plain.tail), BcryptBytes - plain.fill_len))]

(* bcrypt.gensalt() *)
Salts == {"salt1", "salt2"}

(* The bcrypt releases an installation can hold: up to 4.x hashpw and
   checkpw silently truncate a longer password, from 5.0 they raise
   ValueError. *)
Builds == {"truncates", "raises"}

(* bcrypt.hashpw(password, salt): the digest of the bytes read under the
   salt, taken as collision free. *)
hashpw(password, salt, build) ==
    IF build = "raises" /\ ByteLen(password) > BcryptBytes
    THEN [raised |-> TRUE]
    ELSE [raised |-> FALSE, salt |-> salt, digest |-> Truncated(password)]

(* bcrypt.checkpw(password, hashed) *)
checkpw(password, hashed, build) == hashpw(password, hashed.salt, build) = hashed

hash_password(plain, salt, build) == hashpw(plain, salt, build)

(* except ValueError: return False *)
verify_password(plain, hashed, build) ==
    IF plain = NoPassword THEN FALSE
    ELSE IF build = "raises" /\ ByteLen(plain) > BcryptBytes THEN FALSE
    ELSE checkpw(plain, hashed, build)

(* hashed = hash_password(p); verify_password(q, hashed) *)
HashThenVerify(p, q, salt, build) ==
    /\ ret' = [op |-> "verify_password", p |-> p, q |-> q,
               hashed |-> hash_password(p, salt, build),
               ok |-> IF hash_password(p, salt, build).raised THEN FALSE
                      ELSE verify_password(q, hash_password(p, salt, build), build)]
    /\ UNCHANGED <<users, payroll_periods, salary_history, today, employees, attendance,
                   tax_tables, contribution_tables, payroll_entries, history, run,
                   results, dirty, saves, ops, faults, runs>>

(* -------------------------------- users -------------------------------- *)
MaxUsers == 2

(* Inputs of the Add User dialog: passwords of 0 to 4 characters. *)
Usernames == {"", "user1", "user2"}
UserPasswords == { [fill_len |-> n, tail |-> t] : n \in {0, 2, 3}, t \in {<<>>, <<"a">>} }
RoleInputs == {"Employee", "Intern"}

(* INSERT INTO roles (name) VALUES ... *)
Roles == {"Administrator", "HR Officer", "Accountant", "Employee"}

ValidCredentialsNoMinimum(username, password) ==
    username # "" /\ password # NoPassword

(* if not username ... if not password ... if len(password) < 4 ... *)
ValidCredentials(username, password) ==
    username # "" /\ password # NoPassword /\ ByteLen(password) >= 4

UserCall(username, password, connected, ok) ==
    [op |-> "create_user", username |-> username, password |-> password,
     connected |-> connected, ok |-> ok]

(* What the call returns and leaves in the users table.  outcome is what
   the store does: "ok", "store" (a statement before the commit raises) or
   "audit" (log_audit raises after the commit). *)
CreateUserResult(rows, username, password, role_name, is_active, salt, build, outcome) ==
    IF ~ValidCredentials(username, password)
    THEN [rows |-> rows, ret |-> UserCall(username, password, FALSE, FALSE)]
    ELSE IF hash_password(password, salt, build).raised
    THEN [rows |-> rows, ret |-> [op |-> "create_user", username |-> username,
                                  password |-> password, connected |-> FALSE,
                                  raised |-> TRUE]]
    ELSE IF outcome = "store"
            \/ (\E i \in DOMAIN rows : rows[i].username = username)
            \/ role_name \notin Roles
    THEN [rows |-> rows, ret |-> UserCall(username, password, TRUE, FALSE)]
    ELSE [rows |-> Append(rows, [username |-> username,
                                 password_hash |-> hash_password(password, salt, build),
                                 role |-> role_name, is_active |-> is_active]),
          ret |-> UserCall(username, password, TRUE, outcome = "ok")]

create_user(username, password, role_name, is_active, salt, build, outcome) ==
    /\ Len(users) < MaxUsers
    /\ \E r \in {CreateUserResult(users, username, password, role_name, is_active,
                                  salt, build, outcome)} :
        /\ users' = r.rows
        /\ ret' = r.ret
    /\ UNCHANGED <<payroll_periods, salary_history, today, employees, attendance,
                   tax_tables, contribution_tables, payroll_entries, history, run,
                   results, dirty, saves, ops, faults, runs>>

(* ---------------------------- specifications ---------------------------- *)
Environment ==
    \/ AdvanceDay
    \/ \E e \in Emp, t \in TimeIns : time_in(e, t)
    \/ \E e \in Emp, t \in TimeOuts : time_out(e, t)
    \/ \E e \in Emp, d \in Days, f \in {"is_holiday", "is_rest_day"} : update_attendance(e, d, f)
    \/ \E e \in Emp, pr \in Profiles, a \in BOOLEAN : update_employee(e, pr, a)
    \/ \E t \in FileTypes, d \in Days : upload_compliance_file(t, SourceFile(t), d)

Accountant ==
    \/ \E p \in Periods : submit_payroll(p)
    \/ approve_all
    \/ reject_payroll
    \/ request_revision

RunStep(o) ==
    \/ \E b \in BOOLEAN : RunCalc(o, b)
    \/ RunWrite(o)
    \/ \E b \in BOOLEAN : RunLog(o, b)
    \/ RunReturn(o)

(* One desktop: every operation runs to completion before the next starts. *)
Next ==
    \/ Environment
    \/ Accountant
    \/ \E p \in Periods, outcome \in [Emp -> Outcomes] : compute_payroll_period(p, outcome)

Spec == Init /\ [][Next]_vars

(* Two accountants on two desktops against the same database. *)
NextRace ==
    \/ Accountant
    \/ \E o \in Operators, p \in Periods : RunStart(o, p)
    \/ \E o \in Operators : RunStep(o)

SpecRace == Init /\ [][NextRace]_vars


(* The Compliance screen alone: uploads one after another as days pass. *)
NextRates ==
    \/ AdvanceDay
    \/ \E t \in FileTypes, d \in Days : upload_compliance_file_again(t, SourceFile(t), d)

SpecRates == Init /\ [][NextRates]_vars

(* The pay calculator over a range of pay profiles, worked days and rate
   tables: the store as HR, timekeeping and the Compliance screen can leave
   it before a run. *)
PayProfiles ==
    { [base_salary |-> 3000000, hourly_rate |-> 0, salary_type |-> "MONTHLY"],
      [base_salary |-> 1234567, hourly_rate |-> 0, salary_type |-> "MONTHLY"],
      [base_salary |-> 2500000, hourly_rate |-> 0, salary_type |-> "MONTHLY"],
      [base_salary |-> 80050, hourly_rate |-> 0, salary_type |-> "DAILY"],
      [base_salary |-> 0, hourly_rate |-> 50000, salary_type |-> "HOURLY"],
      [base_salary |-> 12345, hourly_rate |-> 0, salary_type |-> "HOURLY"] }

TimedIn(t) == [NoAttendance EXCEPT !.exists = TRUE, !.time_in = t, !.status = "PRESENT"]

WorkedDays ==
    {NoAttendance} \cup
    { [TimedOutRow(TimedIn(495), t) EXCEPT !.is_holiday = h, !.is_rest_day = r] :
        t \in {1020, 1095, 1380}, h \in BOOLEAN, r \in BOOLEAN }

InitPay ==
    /\ today = 1
    /\ employees \in
        { [e \in Emp |-> [exists |-> TRUE, is_active |-> TRUE,
                          base_salary |-> pr[e].base_salary,
                          hourly_rate |-> pr[e].hourly_rate,
                          salary_type |-> pr[e].salary_type]] : pr \in [Emp -> PayProfiles] }
    /\ attendance \in
        { [e \in Emp |-> [d \in Days |-> IF d = 1 THEN w[e] ELSE NoAttendance]] :
            w \in [Emp -> WorkedDays] }
    /\ \E uploaded \in BOOLEAN :
        /\ tax_tables =
            IF uploaded
            THEN <<[effective_from |-> 1, version |-> 1, file_path |-> "tax.csv"]>>
            ELSE <<>>
        /\ contribution_tables =
            IF uploaded
            THEN <<[type |-> "SSS", effective_from |-> 1, version |-> 1,
                    file_path |-> "sss.csv"],
                   [type |-> "PHILHEALTH", effective_from |-> 1, version |-> 1,
                    file_path |-> "philhealth.csv"],
                   [type |-> "PAGIBIG", effective_from |-> 1, version |-> 1,
                    file_path |-> "pagibig.csv"]>>
            ELSE <<>>
    /\ payroll_entries = <<>>
    /\ payroll_periods = [p \in Periods |-> "OPEN"]
    /\ history = <<>>
    /\ run = [o \in Operators |-> Idle]
    /\ results = [o \in Operators |-> NoResults]
    /\ dirty = [e \in Emp |-> FALSE]
    /\ saves = [e \in Emp |-> 0]
    /\ ops = 0
    /\ faults = [save |-> 0, log |-> [e \in Emp |-> 0]]
    /\ runs = 0
    /\ salary_history = <<>>
    /\ users = <<>>
    /\ ret = NoCall

NextPay == \E p \in Periods : compute_payroll_period(p, [e \in Emp |-> "ok"])

SpecPay == InitPay /\ [][NextPay]_vars

(* The Run Payroll button pressed again and again while timekeeping goes
   on and days pass, over stores in which an employee may have no salary or
   be inactive. *)
InitRuns ==
    /\ today = 1
    /\ employees \in
        { [e \in Emp |-> [exists |-> TRUE, is_active |-> a[e],
                          base_salary |-> pr[e].base_salary,
                          hourly_rate |-> pr[e].hourly_rate,
                          salary_type |-> pr[e].salary_type]] :
            pr \in [Emp -> Profiles], a \in [Emp -> BOOLEAN] }
    /\ attendance =
        [e \in Emp |-> [d \in Days |-> IF d = 1 THEN TimedIn(495) ELSE NoAttendance]]
    /\ tax_tables = <<>>
    /\ contribution_tables = <<>>
    /\ payroll_entries = <<>>
    /\ payroll_periods = [p \in Periods |-> "OPEN"]
    /\ history = <<>>
    /\ run = [o \in Operators |-> Idle]
    /\ results = [o \in Operators |-> NoResults]
    /\ dirty = [e \in Emp |-> FALSE]
    /\ saves = [e \in Emp |-> 0]
    /\ ops = 0
    /\ faults = [save |-> 0, log |-> [e \in Emp |-> 0]]
    /\ runs = 0
    /\ salary_history = <<>>
    /\ users = <<>>
    /\ ret = NoCall

NextRuns ==
    \/ AdvanceDay
    \/ \E e \in Emp, t \in TimeOuts : time_out(e, t)
    \/ \E p \in Periods, outcome \in [Emp -> Outcomes] : compute_payroll_period(p, outcome)

SpecRuns == InitRuns /\ [][NextRuns]_vars

(* The accountant's desk: runs, submissions and verifications, with
   employees timing out in between. *)
NextLedger ==
    \/ \E e \in Emp, t \in TimeOuts : time_out(e, t)
    \/ Accountant
    \/ \E p \in Periods, outcome \in [Emp -> Outcomes] : compute_payroll_period(p, outcome)

SpecLedger == Init /\ [][NextLedger]_vars

(* Runs against a store that can fail: before the run starts, or for one
   employee in the middle of it. *)
NextOutage ==
    \/ \E e \in Emp, t \in TimeOuts : time_out(e, t)
    \/ \E p \in Periods, outcome \in [Emp -> Outcomes] : compute_payroll_period(p, outcome)
    \/ \E p \in Periods : compute_payroll_period_unreachable(p)

SpecOutage == InitRuns /\ [][NextOutage]_vars

(* The deduction calculator and the parser over the stores the Compliance
   screen can leave behind.  Per type: no row, a row with a well-formed
   file, a row whose copy was removed from the uploads directory, a row
   with a file of an unsupported extension, a row with a file that has a
   malformed row. *)
UploadKinds(file_type) ==
    {"none", "good", "removed", "unsupported", "malformed"}
        \cup (IF file_type = "SSS Contributions" THEN {"typo"} ELSE {})
        \cup (IF file_type = "Pag-IBIG Rates" THEN {"share"} ELSE {})

UploadedPath(file_type, kind) ==
    CASE kind = "good" -> SourceFile(file_type)
      [] kind = "removed" -> "removed.csv"
      [] kind = "unsupported" -> "rates.pdf"
      [] kind = "typo" -> "sss_typo.csv"
      [] kind = "share" -> "pagibig_share.csv"
      [] kind = "malformed" ->
            (CASE file_type = "SSS Contributions" -> "sss_bad.csv"
               [] file_type = "PhilHealth Rates" -> "philhealth_bad.csv"
               [] file_type = "Pag-IBIG Rates" -> "pagibig_bad.csv"
               [] OTHER -> "tax_bad.csv")
      [] OTHER -> ""

ContributionRows(file_type, kind) ==
    IF kind = "none" THEN <<>>
    ELSE <<[type |-> DbType(file_type), effective_from |-> 1, version |-> 1,
            file_path |-> UploadedPath(file_type, kind)]>>

(* gross_pay values a caller passes, in bp. *)
GrossInputs ==
    {0, 32500000, 32500100, 100000000, 226302702, 247500000, 300000000, 356257731,
     500000000, 699907216, 800000000, 900000000, 1702910000, 2000000000}

InitDeduct ==
    /\ today = 1
    /\ employees =
        [e \in Emp |->
            IF e = 1
            THEN [exists |-> TRUE, is_active |-> TRUE, base_salary |-> 3000000,
                  hourly_rate |-> 0, salary_type |-> "MONTHLY"]
            ELSE [exists |-> TRUE, is_active |-> TRUE, base_salary |-> 0,
                  hourly_rate |-> 50000, salary_type |-> "HOURLY"]]
    /\ attendance =
        [e \in Emp |-> [d \in Days |->
            IF d = 1 THEN TimedOutRow(TimedIn(495), 1380) ELSE NoAttendance]]
    /\ \E kind \in [FileTypes -> {"none", "good", "removed", "unsupported", "malformed",
                                  "typo", "share"}] :
        /\ \A t \in FileTypes : kind[t] \in UploadKinds(t)
        /\ tax_tables =
            IF kind["BIR Tax"] = "none" THEN <<>>
            ELSE <<[effective_from |-> 1, version |-> 1,
                    file_path |-> UploadedPath("BIR Tax", kind["BIR Tax"])]>>
        /\ contribution_tables =
            ContributionRows("SSS Contributions", kind["SSS Contributions"])
                \o ContributionRows("PhilHealth Rates", kind["PhilHealth Rates"])
                \o ContributionRows("Pag-IBIG Rates", kind["Pag-IBIG Rates"])
    /\ payroll_entries = <<>>
    /\ payroll_periods = [p \in Periods |-> "OPEN"]
    /\ history = <<>>
    /\ run = [o \in Operators |-> Idle]
    /\ results = [o \in Operators |-> NoResults]
    /\ dirty = [e \in Emp |-> FALSE]
    /\ saves = [e \in Emp |-> 0]
    /\ ops = 0
    /\ faults = [save |-> 0, log |-> [e \in Emp |-> 0]]
    /\ runs = 0
    /\ salary_history = <<>>
    /\ users = <<>>
    /\ ret = NoCall

(* calculate_compliance_deductions(gross_pay, period_date) called on its
   own; files is the ghost of the rows its lookups returned. *)
CalculateDeductions(gross_pay, period_date) ==
    /\ ret' = [op |-> "calculate_compliance_deductions", gross_pay |-> gross_pay,
               d |-> calculate_compliance_deductions(gross_pay, period_date, today,
                        tax_tables, contribution_tables)]
    /\ UNCHANGED <<users, payroll_periods, salary_history, today, employees, attendance, tax_tables,
                   contribution_tables, payroll_entries, history, run, results, dirty,
                   saves, ops, faults, runs>>

(* parse_compliance_file on the file of the row of a type that is current. *)
ParseCurrent(file_type) ==
    /\ get_latest_compliance_file(file_type, today, tax_tables, contribution_tables) # NoRid
    /\ \E row \in {RowAt(get_latest_compliance_file(file_type, today, tax_tables,
                            contribution_tables), tax_tables, contribution_tables)} :
        ret' = [op |-> "parse_compliance_file", file_type |-> file_type,
                file_path |-> row.file_path,
                parsed |-> parse_compliance_file(file_type, row.file_path)]
    /\ UNCHANGED <<users, payroll_periods, salary_history, today, employees, attendance, tax_tables,
                   contribution_tables, payroll_entries, history, run, results, dirty,
                   saves, ops, faults, runs>>

NextDeduct ==
    \/ \E g \in GrossInputs, p \in Periods : CalculateDeductions(g, PeriodRow(p).start_date)
    \/ \E t \in FileTypes : ParseCurrent(t)

SpecDeduct == InitDeduct /\ [][NextDeduct]_vars

(* The same stores under the calculator and under payroll runs. *)
GapGross == {0, 300000000, 2000000000}

NextGaps ==
    \/ \E g \in GapGross, p \in Periods : CalculateDeductions(g, PeriodRow(p).start_date)
    \/ \E p \in Periods : compute_payroll_period(p, [e \in Emp |-> "ok"])

SpecGaps == InitDeduct /\ [][NextGaps]_vars

(* The timekeeping screen alone, around the clock: 00:00, 08:15, 23:00. *)
ClockTimes == {0, 495, 1380}

NextClock ==
    \/ AdvanceDay
    \/ \E e \in Emp, t \in ClockTimes : time_in_again(e, t)
    \/ \E e \in Emp, t \in ClockTimes : time_out_again(e, t)
    \/ \E e \in Emp, t \in ClockTimes : time_in_refused(e, t)
    \/ \E e \in Emp, t \in ClockTimes : time_out_refused(e, t)

SpecClock == Init /\ [][NextClock]_vars

(* The HR desk: the employee form and the salary update, on employee ids
   with and without a row (0 is no employee's id). *)
NextSalary ==
    \/ \E e \in Emp, pr \in Profiles, a \in BOOLEAN : update_employee(e, pr, a)
    \/ \E e \in Emp \cup {0}, n \in SalaryInputs, b \in BOOLEAN :
            update_employee_salary(e, n, b)
    \/ \E e \in Emp \cup {0}, n \in SalaryInputs : update_employee_salary_failed(e, n)

SpecSalary == InitRuns /\ [][NextSalary]_vars

(* Runs on periods in any status, on stores that can fail, with employees
   timing out in between. *)
InitPeriods ==
    /\ today = 1
    /\ employees \in
        { [e \in Emp |-> [exists |-> TRUE, is_active |-> TRUE,
                          base_salary |-> pr[e].base_salary,
                          hourly_rate |-> pr[e].hourly_rate,
                          salary_type |-> pr[e].salary_type]] :
            pr \in [Emp -> Profiles] }
    /\ attendance =
        [e \in Emp |-> [d \in Days |-> IF d = 1 THEN TimedIn(495) ELSE NoAttendance]]
    /\ tax_tables = <<>>
    /\ contribution_tables = <<>>
    /\ payroll_entries = <<>>
    /\ payroll_periods \in [Periods -> PeriodStatuses]
    /\ history = <<>>
    /\ run = [o \in Operators |-> Idle]
    /\ results = [o \in Operators |-> NoResults]
    /\ dirty = [e \in Emp |-> FALSE]
    /\ saves = [e \in Emp |-> 0]
    /\ ops = 0
    /\ faults = [save |-> 0, log |-> [e \in Emp |-> 0]]
    /\ runs = 0
    /\ salary_history = <<>>
    /\ users = <<>>
    /\ ret = NoCall

SpecPeriods == InitPeriods /\ [][NextOutage]_vars

(* Passwords hashed and verified, one pair after another. *)
NextPasswords ==
    \E p \in Passwords, q \in Passwords, salt \in Salts, build \in Builds :
        HashThenVerify(p, q, salt, build)

SpecPasswords == Init /\ [][NextPasswords]_vars

(* The Add User dialog, one call after another. *)
NextUsers ==
    \E u \in Usernames, p \in UserPasswords, r \in RoleInputs, a \in BOOLEAN,
       salt \in Salts, build \in Builds, outcome \in {"ok", "store", "audit"} :
        create_user(u, p, r, a, salt, build, outcome)

SpecUsers == Init /\ [][NextUsers]_vars

(* One desktop, the run in its steps, with employees timing out while it
   runs and between runs. *)
NextSteps ==
    \/ \E e \in Emp, t \in TimeOuts : time_out(e, t)
    \/ \E p \in Periods : RunStart(1, p)
    \/ RunStep(1)

SpecSteps == Init /\ [][NextSteps]_vars

(* Runs over stores in which employee 1 has neither an hourly rate nor a
   salary, whatever the days worked and the rate tables. *)
ZeroProfiles ==
    { [base_salary |-> 0, hourly_rate |-> 0, salary_type |-> t] :
        t \in {"MONTHLY", "DAILY", "HOURLY"} }

InitZero ==
    /\ today = 1
    /\ employees \in
        { [e \in Emp |-> [exists |-> TRUE, is_active |-> TRUE,
                          base_salary |-> pr[e].base_salary,
                          hourly_rate |-> pr[e].hourly_rate,
                          salary_type |-> pr[e].salary_type]] :
            pr \in { f \in [Emp -> ZeroProfiles \cup Profiles] : f[1] \in ZeroProfiles } }
    /\ attendance \in
        { [e \in Emp |-> [d \in Days |-> IF d = 1 THEN w[e] ELSE NoAttendance]] :
            w \in { f \in [Emp -> WorkedDays] : f[2] = TimedOutRow(TimedIn(495), 1380) } }
    /\ \E uploaded \in BOOLEAN :
        /\ tax_tables =
            IF uploaded
            THEN <<[effective_from |-> 1, version |-> 1, file_path |-> "tax.csv"]>>
            ELSE <<>>
        /\ contribution_tables =
            IF uploaded
            THEN <<[type |-> "SSS", effective_from |-> 1, version |-> 1,
                    file_path |-> "sss.csv"]>>
            ELSE <<>>
    /\ payroll_entries = <<>>
    /\ payroll_periods = [p \in Periods |-> "OPEN"]
    /\ history = <<>>
    /\ run = [o \in Operators |-> Idle]
    /\ results = [o \in Operators |-> NoResults]
    /\ dirty = [e \in Emp |-> FALSE]
    /\ saves = [e \in Emp |-> 0]
    /\ ops = 0
    /\ faults = [save |-> 0, log |-> [e \in Emp |-> 0]]
    /\ runs = 0
    /\ salary_history = <<>>
    /\ users = <<>>
    /\ ret = NoCall

SpecZero == InitZero /\ [][NextPay]_vars

(* The default withholding tax rule applied to pairs of taxable incomes, in
   bp: each bracket boundary, one centavo below and above it, one peso above
   it, and amounts below, inside and above the brackets. *)
TaxBoundaries == {208330000, 333320000, 666660000, 1666660000}

TaxableInputs ==
    {-4350000, 0, 100000000, 250000000, 500000000, 1000000000, 2000000000}
        \cup UNION { {b - 100, b, b + 100, b + 10000} : b \in TaxBoundaries }

DefaultTaxOfPair(a, b) ==
    /\ ret' = [op |-> "default_tax", a |-> a, b |-> b,
               tax_a |-> DefaultTax(a), tax_b |-> DefaultTax(b)]
    /\ UNCHANGED <<users, payroll_periods, salary_history, today, employees, attendance,
                   tax_tables, contribution_tables, payroll_entries, history, run,
                   results, dirty, saves, ops, faults, runs>>

NextTax == \E a \in TaxableInputs, b \in TaxableInputs : DefaultTaxOfPair(a, b)

SpecTax == Init /\ [][NextTax]_vars

(* ------------------------------ properties ------------------------------ *)
Abs(x) == IF x < 0 THEN -x ELSE x

(* The history records that reference entry i, oldest first. *)
HistoryOfEntry(i) == SelectSeq(history, LAMBDA h : h.payroll_entry_id = i)

(* The records of employee e a step appends to the history. *)
AppendedFor(e) ==
    SelectSeq(SubSeq(history', Len(history) + 1, Len(history')),
              LAMBDA h : h.employee_id = e)

(* A run saved employee e again while no input of e had changed since the
   previous save, and its history insert did not fail. *)
RecomputedUnchanged(e) ==
    /\ saves[e] > 0
    /\ ~dirty[e]
    /\ saves'[e] = saves[e] + 1
    /\ faults'.log[e] = faults.log[e]

(* C1: when an employee's payroll is computed and saved again with
   attendance, pay profile, settings and rate tables unchanged since the
   previous run, every stored field of the entry keeps its value (status is
   PENDING after every run) and the run appends exactly one history record,
   of type UPDATED.  Stated for the runs whose history insert succeeds. *)
C1_RecomputeIdempotent ==
    [][\A e \in Emp : RecomputedUnchanged(e) =>
            /\ \A i \in DOMAIN payroll_entries :
                    payroll_entries[i].employee_id = e =>
                        payroll_entries'[i] = [payroll_entries[i] EXCEPT !.status = "PENDING"]
            /\ Len(AppendedFor(e)) = 1
            /\ AppendedFor(e)[1].transaction_type = "UPDATED"]_vars

(* First CREATED, then UPDATED, each UPDATED record's previous gross and net
   pay being the new gross and net pay of the record before it. *)
Chained(h) ==
    /\ h # <<>> => h[1].transaction_type = "CREATED"
    /\ \A k \in 2..Len(h) :
        /\ h[k].transaction_type = "UPDATED"
        /\ h[k].previous_gross_pay = h[k - 1].new_gross_pay
        /\ h[k].previous_net_pay = h[k - 1].new_net_pay

(* C2, as stated: after N upserts of the same (period, employee) exactly N
   history records reference the entry, the first CREATED, the later ones
   UPDATED, each carrying the gross and net pay of the one before as its
   previous values. *)
C2_NUpsertsNRecords ==
    \A i \in DOMAIN payroll_entries :
        /\ Len(HistoryOfEntry(i)) = saves[payroll_entries[i].employee_id]
        /\ Chained(HistoryOfEntry(i))

(* C2, amended: the same for every entry none of whose history inserts has
   failed; an insert that fails is dropped by _save_payroll_entry and leaves
   the entry written with no record. *)
C2_NUpsertsNRecordsWhenLogged ==
    \A i \in DOMAIN payroll_entries :
        faults.log[payroll_entries[i].employee_id] = 0 =>
            /\ Len(HistoryOfEntry(i)) = saves[payroll_entries[i].employee_id]
            /\ Chained(HistoryOfEntry(i))

(* Three upserts of one entry, all logged, the pay having changed between
   the first and the second. *)
C2_Witness ==
    \E i \in DOMAIN payroll_entries :
        /\ faults.log[payroll_entries[i].employee_id] = 0
        /\ saves[payroll_entries[i].employee_id] = 3
        /\ Len(HistoryOfEntry(i)) = 3
        /\ HistoryOfEntry(i)[2].previous_gross_pay # HistoryOfEntry(i)[2].new_gross_pay

(* C3: in every reachable state, two interleaved runs of the same period
   included, there is at most one payroll entry per (period, employee). *)
C3_OneEntryPerEmployee ==
    \A i, j \in DOMAIN payroll_entries :
        (/\ payroll_entries[i].payroll_period_id = payroll_entries[j].payroll_period_id
         /\ payroll_entries[i].employee_id = payroll_entries[j].employee_id) => i = j

(* C4: a run of compute_payroll_period processes every active employee
   exactly once; an employee whose computation raises is in errors and the
   loop goes on; total_employees is the number of active employees,
   computed + len(errors) = total_employees, and every employee counted in
   computed has an entry for the period. *)
C4_BatchPartialFailure ==
    [][runs' = runs + 1 =>
        /\ results'[1].total_employees = Cardinality(ActiveEmployees)
        /\ results'[1].computed + Len(results'[1].errors) = results'[1].total_employees
        /\ results'[1].computed = Len(results'[1].computed_ids)
        /\ \A e \in ActiveEmployees :
            Cardinality({k \in DOMAIN results'[1].computed_ids :
                            results'[1].computed_ids[k] = e})
              + Cardinality({k \in DOMAIN results'[1].errors :
                            results'[1].errors[k] = e}) = 1
        /\ \A e \in ActiveEmployees :
            Raises(e, results'[1].period_id) => InSeq(e, results'[1].errors)
        /\ \A k \in DOMAIN results'[1].computed_ids :
            \E i \in DOMAIN payroll_entries' :
                /\ payroll_entries'[i].payroll_period_id = results'[1].period_id
                /\ payroll_entries'[i].employee_id = results'[1].computed_ids[k]]_vars

(* A run returned with the first employee in errors and the second
   computed and stored. *)
C4_Witness ==
    /\ results[1].returned
    /\ results[1].total_employees = 2
    /\ results[1].errors = <<1>>
    /\ results[1].computed_ids = <<2>>
    /\ \E i \in DOMAIN payroll_entries : payroll_entries[i].employee_id = 2

(* rid is the row of the type with the greatest effective_from <= d and,
   among equals, the highest version; NoRid when there is none. *)
SelectedAsOf(rid, db_type, d) ==
    LET cand == {r \in RowsOfType(db_type, tax_tables, contribution_tables) :
                    RowAt(r, tax_tables, contribution_tables).effective_from <= d}
    IN  IF cand = {} THEN rid = NoRid
        ELSE /\ rid \in cand
             /\ \A o \in cand :
                LET x == RowAt(rid, tax_tables, contribution_tables)
                    y == RowAt(o, tax_tables, contribution_tables)
                IN  \/ x.effective_from > y.effective_from
                    \/ x.effective_from = y.effective_from /\ x.version >= y.version

(* C5: for a deduction computed with period_date d, the rate row used for
   each type is the one with the greatest effective_from <= d, ties going
   to the highest version; a row effective after d is never used. *)
C5_RowByPeriodDate ==
    \A p \in Periods, t \in FileTypes :
        SelectedAsOf(
            calculate_compliance_deductions(0, PeriodRow(p).start_date, today,
                tax_tables, contribution_tables).files[t],
            DbType(t), PeriodRow(p).start_date)

(* C6: after any sequence of uploads the version stored by each upload is
   greater than the version of every earlier row of the same type. *)
C6_VersionsIncrease ==
    /\ \A i, j \in DOMAIN tax_tables :
        i < j => tax_tables[i].version < tax_tables[j].version
    /\ \A i, j \in DOMAIN contribution_tables :
        (i < j /\ contribution_tables[i].type = contribution_tables[j].type) =>
            contribution_tables[i].version < contribution_tables[j].version

(* Three uploads, two of one type around one of another. *)
C6_Witness ==
    /\ Len(contribution_tables) = 3
    /\ contribution_tables[1].type = contribution_tables[3].type
    /\ contribution_tables[2].type # contribution_tables[1].type
    /\ contribution_tables[3].version = 2

(* C7: in every stored entry gross_pay equals the sum of the earnings
   components stored in the same row, within 0.01. *)
C7_GrossIsSumOfStored ==
    \A i \in DOMAIN payroll_entries :
        Abs(payroll_entries[i].gross_pay
            - (payroll_entries[i].basic_pay + payroll_entries[i].overtime_pay
               + payroll_entries[i].allowances + payroll_entries[i].holiday_pay
               + payroll_entries[i].vacation_sickleave
               + payroll_entries[i].salary_adjustment
               + payroll_entries[i].incentive_pay)) <= 1

Reconciled(d) == Abs(d.net_pay - (d.gross_pay - d.total_deductions)) <= 1

(* C8: for every result of calculate_payroll_for_employee, and for every
   stored entry, net_pay equals gross_pay minus total_deductions within
   0.01, on the rounded values. *)
C8_NetReconciles ==
    /\ \A i \in DOMAIN payroll_entries : Reconciled(payroll_entries[i])
    /\ \A e \in Emp, p \in Periods :
        \A d \in {calculate_payroll_for_employee(e, p, PeriodRow(p).start_date,
                    PeriodRow(p).end_date, employees, attendance, today, tax_tables,
                    contribution_tables)} :
            ~d.raised => Reconciled(d)

(* A stored entry with deductions whose net pay is one centavo away from
   gross minus deductions. *)
C8_Witness ==
    \E i \in DOMAIN payroll_entries :
        /\ payroll_entries[i].total_deductions > 0
        /\ payroll_entries[i].gross_pay > 0
        /\ Abs(payroll_entries[i].net_pay
               - (payroll_entries[i].gross_pay - payroll_entries[i].total_deductions)) = 1

(* C9: every step that takes an entry out of PENDING appends a history
   record for that entry whose transaction_type names the transition. *)
C9_TransitionsLogged ==
    [][\A i \in DOMAIN payroll_entries :
            (payroll_entries[i].status = "PENDING" /\ payroll_entries'[i].status # "PENDING")
            => \E k \in (Len(history) + 1)..Len(history') :
                /\ history'[k].payroll_entry_id = i
                /\ history'[k].transaction_type
                        \in {"VERIFIED", "REJECTED", "REVISION_REQUESTED"}]_vars

(* C10: no operation modifies or removes a history record: the history
   after a step begins with the history before it. *)
C10_HistoryAppendOnly ==
    [][/\ Len(history') >= Len(history)
       /\ SubSeq(history', 1, Len(history)) = history]_vars

(* A history of three records beside an entry that was approved. *)
C10_Witness ==
    /\ Len(history) >= 3
    /\ \E i \in DOMAIN payroll_entries : payroll_entries[i].status = "VERIFIED"

(* C11: when the history insert fails during the upsert of employee e, the
   entry of e stays written with the newly computed values and no record
   is appended for it, _save_payroll_entry returns the id of that entry (e
   is counted in computed), and the run goes on to process every other
   active employee. *)
C11_LogFailureKeepsEntry ==
    [][\A e \in Emp : faults'.log[e] = faults.log[e] + 1 =>
        \E d \in {calculate_payroll_for_employee(e, results'[1].period_id,
                    PeriodRow(results'[1].period_id).start_date,
                    PeriodRow(results'[1].period_id).end_date, employees, attendance,
                    today, tax_tables, contribution_tables)} :
        \E s \in {save_payroll_entry(payroll_entries, history, d, FALSE)} :
            /\ \E i \in DOMAIN payroll_entries' : payroll_entries'[i] = StoredRow(d)
            /\ AppendedFor(e) = <<>>
            /\ s.entry_id \in DOMAIN s.entries
            /\ s.entries[s.entry_id] = StoredRow(d)
            /\ s.history = history
            /\ InSeq(e, results'[1].computed_ids)
            /\ \A x \in ActiveEmployees :
                InSeq(x, results'[1].computed_ids) \/ InSeq(x, results'[1].errors)
            /\ \A x \in ActiveEmployees \ {e} :
                (~Raises(x, results'[1].period_id) /\ faults'.save = faults.save) =>
                    /\ InSeq(x, results'[1].computed_ids)
                    /\ \E i \in DOMAIN payroll_entries' :
                        payroll_entries'[i].employee_id = x]_vars

(* A run whose history insert failed for the first employee: the entry is
   there without a record, and the second employee was computed and logged
   after it. *)
C11_Witness ==
    /\ faults.log[1] = 1
    /\ results[1].returned
    /\ results[1].computed_ids = <<1, 2>>
    /\ \E i \in DOMAIN payroll_entries :
        /\ payroll_entries[i].employee_id = 1
        /\ payroll_entries[i].gross_pay > 0
        /\ HistoryOfEntry(i) = <<>>
    /\ \E k \in DOMAIN history : history[k].employee_id = 2

(* C12: a run during which the store fails ends in one failure raised to
   the caller, with no result returned and no entry written by that run; it
   never returns normally with entries written and the store failure in
   the per-employee error list. *)
C12_StoreFailureIsBatchLevel ==
    [][faults'.save > faults.save =>
        /\ results'[1] = BatchRaised
        /\ payroll_entries' = payroll_entries]_vars

(* The row a lookup returned for a type gives the calculator nothing to
   use: there is no current row, or the row names no file, or its file is
   missing, or the parse of the file has no brackets. *)
NoUsableTable(file_type, rid) ==
    \/ rid = NoRid
    \/ RowAt(rid, tax_tables, contribution_tables).file_path = ""
    \/ ~FileExists(RowAt(rid, tax_tables, contribution_tables).file_path)
    \/ parse_compliance_file(file_type,
            RowAt(rid, tax_tables, contribution_tables).file_path).brackets = <<>>

(* C13: for each deduction type with no current row, a missing file or a
   parse without brackets, calculate_compliance_deductions returns the
   amount of the built-in default rule of that type; the call returns
   normally, and a run over such a store puts no employee in its error
   list. *)
C13_FallbackToDefaults ==
    /\ ret.op = "calculate_compliance_deductions" =>
        /\ NoUsableTable("SSS Contributions", ret.d.files["SSS Contributions"]) =>
                ret.d.sss = DefaultSSS(ret.gross_pay)
        /\ NoUsableTable("PhilHealth Rates", ret.d.files["PhilHealth Rates"]) =>
                ret.d.philhealth = DefaultPhilHealth(ret.gross_pay)
        /\ NoUsableTable("Pag-IBIG Rates", ret.d.files["Pag-IBIG Rates"]) =>
                ret.d.pagibig =
                    (IF ret.gross_pay <= 15000000 THEN MulDiv(ret.gross_pay, 1, 100)
                     ELSE Min(MulDiv(ret.gross_pay, 2, 100), 1000000))
        /\ NoUsableTable("BIR Tax", ret.d.files["BIR Tax"]) =>
                ret.d.tax = DefaultTax(ret.gross_pay
                                - (ret.d.sss + ret.d.philhealth + ret.d.pagibig))
    /\ results[1].returned =>
        /\ results[1].errors = <<>>
        /\ results[1].computed = results[1].total_employees

(* The four gaps at once: a malformed SSS file, a PhilHealth file removed
   from disk, no Pag-IBIG row and a tax file of an unsupported extension;
   the call on 30000 returned the default amounts, and a run over the same
   store computed both employees. *)
C13_Witness ==
    /\ ret.op = "calculate_compliance_deductions"
    /\ ret.gross_pay = 300000000
    /\ ret.d.files["SSS Contributions"] # NoRid
    /\ RowAt(ret.d.files["SSS Contributions"], tax_tables, contribution_tables).file_path
            = "sss_bad.csv"
    /\ ret.d.files["PhilHealth Rates"] # NoRid
    /\ RowAt(ret.d.files["PhilHealth Rates"], tax_tables, contribution_tables).file_path
            = "removed.csv"
    /\ ret.d.files["Pag-IBIG Rates"] = NoRid
    /\ ret.d.files["BIR Tax"] # NoRid
    /\ RowAt(ret.d.files["BIR Tax"], tax_tables, contribution_tables).file_path = "rates.pdf"
    /\ ret.d.sss = 11250000
    /\ ret.d.philhealth = 9000000
    /\ ret.d.pagibig = 1000000
    /\ ret.d.tax = DefaultTax(300000000 - 21250000)
    /\ results[1].returned
    /\ results[1].computed = 2

(* A row that is not of the form the parser documents. *)
MalformedRow(row) == row.kind \in {"typo", "badrange", "badshare"}

(* C14: for a missing file, an unsupported extension or a file with a
   malformed row, the parse returns no brackets; it never returns a list
   made of part of the rows of a file that has a malformed row. *)
C14_ParserAllOrNothing ==
    ret.op = "parse_compliance_file" =>
        ((\/ ~FileExists(ret.file_path)
          \/ ~EndsWithCsv(ret.file_path)
          \/ \E i \in DOMAIN FileRows(ret.file_path) :
                MalformedRow(FileRows(ret.file_path)[i]))
            => ret.parsed.brackets = <<>>)

(* C15: each of the four amounts calculate_compliance_deductions returns
   is >= 0 for every gross_pay >= 0, under the default rules and under
   uploaded tables, also when gross minus the three contributions is
   negative. *)
C15_DeductionsNonNegative ==
    ret.op = "calculate_compliance_deductions" =>
        /\ ret.gross_pay >= 0
        /\ ret.d.sss >= 0
        /\ ret.d.philhealth >= 0
        /\ ret.d.pagibig >= 0
        /\ ret.d.tax >= 0

(* A call on gross pay 0 with the default SSS and PhilHealth rules and an
   uploaded tax table: taxable income is -435.00 and the tax is 0. *)
C15_Witness ==
    /\ ret.op = "calculate_compliance_deductions"
    /\ ret.gross_pay = 0
    /\ ret.d.sss = 1350000
    /\ ret.d.philhealth = 3000000
    /\ ret.gross_pay - (ret.d.sss + ret.d.philhealth + ret.d.pagibig) = -4350000
    /\ ~NoUsableTable("BIR Tax", ret.d.files["BIR Tax"])
    /\ ret.d.tax = 0

(* gross_pay * rate / 100, in bp, as the float product rounds to. *)
PercentOf(amount, per_thousand) ==
    (amount \div 1000) * per_thousand + ((amount % 1000) * per_thousand) \div 1000

(* C16: with no usable uploaded SSS table, sss is 135.00 for gross_pay <=
   3250, min(gross_pay x 0.045, 1125.00) for 3250 < gross_pay <= 24750 and
   1125.00 above; 3250.00 gives 135.00, 3250.01 gives 146.25 and 30000
   gives 1125.00. *)
C16_DefaultSSS ==
    (/\ ret.op = "calculate_compliance_deductions"
     /\ NoUsableTable("SSS Contributions", ret.d.files["SSS Contributions"])) =>
        /\ ret.gross_pay <= 32500000 => ret.d.sss = 1350000
        /\ (32500000 < ret.gross_pay /\ ret.gross_pay <= 247500000) =>
                /\ ret.d.sss <= 11250000
                /\ ret.d.sss = PercentOf(ret.gross_pay, 45) \/ ret.d.sss = 11250000
                /\ ret.d.sss <= PercentOf(ret.gross_pay, 45)
        /\ ret.gross_pay > 247500000 => ret.d.sss = 11250000
        /\ ret.gross_pay = 32500000 => Round2(ret.d.sss) = 13500
        /\ ret.gross_pay = 32500100 => Round2(ret.d.sss) = 14625
        /\ ret.gross_pay = 300000000 => Round2(ret.d.sss) = 112500

(* The three boundary calls of the default SSS rule have been made, the
   last one returned here: 3250.01 gives 146.25. *)
C16_Witness ==
    /\ ret.op = "calculate_compliance_deductions"
    /\ NoUsableTable("SSS Contributions", ret.d.files["SSS Contributions"])
    /\ ret.gross_pay = 32500100
    /\ Round2(ret.d.sss) = 14625

(* C17: with no usable uploaded PhilHealth table, philhealth is 300.00 for
   gross_pay <= 10000, 3% of gross_pay for 10000 < gross_pay <= 80000 and
   2400.00 above; 10000 gives 300.00, 50000 gives 1500.00 and 90000 gives
   2400.00. *)
C17_DefaultPhilHealth ==
    (/\ ret.op = "calculate_compliance_deductions"
     /\ NoUsableTable("PhilHealth Rates", ret.d.files["PhilHealth Rates"])) =>
        /\ ret.gross_pay <= 100000000 => ret.d.philhealth = 3000000
        /\ (100000000 < ret.gross_pay /\ ret.gross_pay <= 800000000) =>
                ret.d.philhealth = PercentOf(ret.gross_pay, 30)
        /\ ret.gross_pay > 800000000 => ret.d.philhealth = 24000000
        /\ ret.gross_pay = 100000000 => Round2(ret.d.philhealth) = 30000
        /\ ret.gross_pay = 500000000 => Round2(ret.d.philhealth) = 150000
        /\ ret.gross_pay = 900000000 => Round2(ret.d.philhealth) = 240000

(* A call on 90000 under the default PhilHealth rule returned the cap. *)
C17_Witness ==
    /\ ret.op = "calculate_compliance_deductions"
    /\ NoUsableTable("PhilHealth Rates", ret.d.files["PhilHealth Rates"])
    /\ ret.gross_pay = 900000000
    /\ Round2(ret.d.philhealth) = 240000

(* taxable = gross_pay - (sss + philhealth + pagibig) of a returned dict. *)
TaxableOf(call) == call.gross_pay - (call.d.sss + call.d.philhealth + call.d.pagibig)

(* C18: with no usable uploaded tax table, tax is 0 up to a taxable income
   of 20833, (taxable - 20833) x 0.20 up to 33332, 2500 + (taxable - 33332)
   x 0.25 up to 66666, 10833 + (taxable - 66666) x 0.30 up to 166666 and
   40833 + (taxable - 166666) x 0.32 above; taxable 20833 gives 0.00, 33332
   gives 2499.80 and 66666 gives 10833.50. *)
C18_DefaultTax ==
    (/\ ret.op = "calculate_compliance_deductions"
     /\ NoUsableTable("BIR Tax", ret.d.files["BIR Tax"])) =>
        /\ TaxableOf(ret) <= 208330000 => ret.d.tax = 0
        /\ (208330000 < TaxableOf(ret) /\ TaxableOf(ret) <= 333320000) =>
                ret.d.tax = PercentOf(TaxableOf(ret) - 208330000, 200)
        /\ (333320000 < TaxableOf(ret) /\ TaxableOf(ret) <= 666660000) =>
                ret.d.tax = 25000000 + PercentOf(TaxableOf(ret) - 333320000, 250)
        /\ (666660000 < TaxableOf(ret) /\ TaxableOf(ret) <= 1666660000) =>
                ret.d.tax = 108330000 + PercentOf(TaxableOf(ret) - 666660000, 300)
        /\ TaxableOf(ret) > 1666660000 =>
                ret.d.tax = 408330000 + PercentOf(TaxableOf(ret) - 1666660000, 320)
        /\ TaxableOf(ret) = 208330000 => Round2(ret.d.tax) = 0
        /\ TaxableOf(ret) = 333320000 => Round2(ret.d.tax) = 249980
        /\ TaxableOf(ret) = 666660000 => Round2(ret.d.tax) = 1083350

(* A call whose taxable income is exactly 33332.00 under the default tax
   rule returned 2499.80. *)
C18_Witness ==
    /\ ret.op = "calculate_compliance_deductions"
    /\ NoUsableTable("BIR Tax", ret.d.files["BIR Tax"])
    /\ TaxableOf(ret) = 333320000
    /\ Round2(ret.d.tax) = 249980

(* C19: a time_out is recorded only on a row that has a time_in and only
   once; a time_in on a row that has a time_in, a time_out on a row without
   a time_in and a time_out on a row that has a time_out return failure and
   leave the row unchanged. *)
C19_AttendanceLifecycle ==
    [][\A e \in Emp, d \in Days :
        /\ (attendance[e][d].exists /\ attendance[e][d].time_in # NULL) =>
                attendance'[e][d].time_in = attendance[e][d].time_in
        /\ (attendance[e][d].exists /\ attendance[e][d].time_out # NULL) =>
                attendance'[e][d] = attendance[e][d]
        /\ attendance'[e][d].time_out # attendance[e][d].time_out =>
                attendance[e][d].exists /\ attendance[e][d].time_in # NULL
        /\ (/\ ret' # ret
            /\ ret'.op = "time_in"
            /\ ret'.employee_id = e
            /\ d = today
            /\ attendance[e][d].exists
            /\ attendance[e][d].time_in # NULL) => ~ret'.ok
        /\ (/\ ret' # ret
            /\ ret'.op = "time_out"
            /\ ret'.employee_id = e
            /\ d = today
            /\ attendance[e][d].time_out # NULL) => ~ret'.ok]_vars

(* C20: every change of an employee's base_salary appends exactly one
   salary history record holding the old and the new value, existing
   records are never modified, and an update_employee_salary call that
   returns failure changes neither the salary nor the history. *)
C20_SalaryChangeRecorded ==
    [][/\ \A e \in Emp :
            employees'[e].base_salary # employees[e].base_salary =>
                /\ Len(salary_history') = Len(salary_history) + 1
                /\ salary_history'[Len(salary_history')] =
                        [employee_id |-> e,
                         old_salary |-> employees[e].base_salary,
                         new_salary |-> employees'[e].base_salary]
       /\ Len(salary_history') >= Len(salary_history)
       /\ SubSeq(salary_history', 1, Len(salary_history)) = salary_history
       /\ (/\ ret' # ret
           /\ ret'.op = "update_employee_salary"
           /\ ~ret'.ok) =>
                /\ employees' = employees
                /\ salary_history' = salary_history]_vars

(* C21: compute_payroll_period never changes the status of a payroll
   period, whatever the numbers of computed entries and errors, and also
   when it raises. *)
C21_RunKeepsPeriodStatus ==
    [][runs' > runs => payroll_periods' = payroll_periods]_vars

(* A run on a SUBMITTED period returned one computed entry and one error. *)
C21_Witness ==
    /\ runs > 0
    /\ results[1].returned
    /\ results[1].computed = 1
    /\ Len(results[1].errors) = 1
    /\ payroll_periods[1] = "SUBMITTED"

(* C22: for every non-empty password p, hash_password(p) returns a hash
   that differs from p, verify_password(p, hash_password(p)) is True, and
   verify_password(q, hash_password(p)) is False for every q different
   from p. *)
C22_PasswordRoundTrip ==
    (ret.op = "verify_password" /\ ret.p # NoPassword) =>
        /\ ~ret.hashed.raised
        /\ ret.hashed # ret.p
        /\ ret.q = ret.p => ret.ok
        /\ ret.q # ret.p => ~ret.ok

(* C23: a create_user call with an empty username, an empty password or a
   password shorter than 4 characters returns False without opening a
   connection, and the users table is left as it was. *)
C23_CreateUserValidates ==
    [][(/\ ret'.op = "create_user"
        /\ \/ ret'.username = ""
           \/ ret'.password = NoPassword
           \/ ByteLen(ret'.password) < 4) =>
            /\ ret'.connected = FALSE
            /\ ret' = UserCall(ret'.username, ret'.password, FALSE, FALSE)
            /\ users' = users]_vars

(* A call with a 3-character password was refused on a store that holds a
   user. *)
C23_Witness ==
    /\ ret.op = "create_user"
    /\ ret.username # ""
    /\ ByteLen(ret.password) = 3
    /\ ret = UserCall(ret.username, ret.password, FALSE, FALSE)
    /\ Len(users) = 1

(* The records a step appends to the history. *)
Appended == SubSeq(history', Len(history) + 1, Len(history'))

(* C24: in every reachable state each CREATED or UPDATED history record
   references a payroll entry that exists and holds the new_gross_pay and
   new_net_pay the record states. *)
C24_RecordsMatchEntries ==
    \A k \in DOMAIN history :
        history[k].transaction_type \in {"CREATED", "UPDATED"} =>
            /\ history[k].payroll_entry_id \in DOMAIN payroll_entries
            /\ payroll_entries[history[k].payroll_entry_id].gross_pay =
                    history[k].new_gross_pay
            /\ payroll_entries[history[k].payroll_entry_id].net_pay =
                    history[k].new_net_pay

(* C24, amended: with one run at a time, whenever a CREATED or UPDATED
   record is inserted the entry it references is already in the store, is
   the entry of the record's period and employee and holds the record's
   new_gross_pay and new_net_pay; records inserted earlier keep the values
   they recorded. *)
C24_EntryWrittenBeforeRecord ==
    [][\A k \in DOMAIN Appended :
        Appended[k].transaction_type \in {"CREATED", "UPDATED"} =>
            /\ Appended[k].payroll_entry_id \in DOMAIN payroll_entries
            /\ payroll_entries[Appended[k].payroll_entry_id].payroll_period_id =
                    Appended[k].payroll_period_id
            /\ payroll_entries[Appended[k].payroll_entry_id].employee_id =
                    Appended[k].employee_id
            /\ payroll_entries[Appended[k].payroll_entry_id].gross_pay =
                    Appended[k].new_gross_pay
            /\ payroll_entries[Appended[k].payroll_entry_id].net_pay =
                    Appended[k].new_net_pay]_vars

(* An entry was created, then updated with a different gross pay, and both
   records are in the history. *)
C24_Witness ==
    \E j \in DOMAIN history, k \in DOMAIN history :
        /\ j < k
        /\ history[j].transaction_type = "CREATED"
        /\ history[k].transaction_type = "UPDATED"
        /\ history[k].payroll_entry_id = history[j].payroll_entry_id
        /\ history[k].new_gross_pay # history[j].new_gross_pay
        /\ payroll_entries[history[k].payroll_entry_id].gross_pay = history[k].new_gross_pay

(* C25: in every reachable state the status of every payroll entry is one
   of PENDING, VERIFIED, REJECTED. *)
C25_EntryStatusInEnum ==
    \A i \in DOMAIN payroll_entries :
        payroll_entries[i].status \in {"PENDING", "VERIFIED", "REJECTED"}

(* C28: no step returns a VERIFIED payroll entry to PENDING. *)
C28_VerifiedStaysVerified ==
    [][\A i \in DOMAIN payroll_entries :
        payroll_entries[i].status = "VERIFIED" =>
            payroll_entries'[i].status # "PENDING"]_vars

(* The amount a deduction type is looked up with, and the amount the call
   returned for it. *)
LookupAmount(call, file_type) ==
    IF file_type = "BIR Tax" THEN TaxableOf(call) ELSE call.gross_pay

ReturnedFor(call, file_type) ==
    CASE file_type = "SSS Contributions" -> call.d.sss
      [] file_type = "PhilHealth Rates" -> call.d.philhealth
      [] file_type = "Pag-IBIG Rates" -> call.d.pagibig
      [] file_type = "BIR Tax" -> call.d.tax

CoveredBy(file_type, bracket, amount) ==
    IF file_type = "BIR Tax"
    THEN bracket.from * 100 <= amount /\ amount < bracket.to * 100
    ELSE bracket.min * 100 <= amount /\ amount <= bracket.max * 100

NoBracketCovers(file_type, rid, amount) ==
    \A k \in DOMAIN parse_compliance_file(file_type,
                RowAt(rid, tax_tables, contribution_tables).file_path).brackets :
        ~CoveredBy(file_type,
            parse_compliance_file(file_type,
                RowAt(rid, tax_tables, contribution_tables).file_path).brackets[k],
            amount)

(* C26: when a deduction type has a current uploaded table with a non-empty
   bracket list and the amount lies in none of its brackets, the deduction
   returned for that type is 0. *)
C26_NoBracketIsZero ==
    ret.op = "calculate_compliance_deductions" =>
        \A t \in FileTypes :
            (/\ ~NoUsableTable(t, ret.d.files[t])
             /\ NoBracketCovers(t, ret.d.files[t], LookupAmount(ret, t))) =>
                ReturnedFor(ret, t) = 0

(* A gross pay of 30000 above every bracket of the uploaded SSS table: the
   deduction is 0 where the default rule gives 1125.00. *)
C26_Witness ==
    /\ ret.op = "calculate_compliance_deductions"
    /\ ret.gross_pay = 300000000
    /\ ~NoUsableTable("SSS Contributions", ret.d.files["SSS Contributions"])
    /\ NoBracketCovers("SSS Contributions", ret.d.files["SSS Contributions"], ret.gross_pay)
    /\ ret.d.sss = 0
    /\ DefaultSSS(ret.gross_pay) = 11250000

(* The pay data calculate_payroll_for_employee returns for employee e in
   the current store. *)
PayDataNow(e, period_id) ==
    calculate_payroll_for_employee(e, period_id, PeriodRow(period_id).start_date,
        PeriodRow(period_id).end_date, employees, attendance, today, tax_tables,
        contribution_tables)

ZeroRate(e) ==
    employees[e].exists /\ employees[e].hourly_rate = 0 /\ employees[e].base_salary = 0

(* C27: for an existing employee with hourly_rate 0 and base_salary 0,
   calculate_payroll_for_employee returns normally with every earnings
   component and gross_pay equal to 0, and a run that has returned counted
   the employee as computed and not as an error. *)
C27_ZeroRateIsZeroPay ==
    \A e \in Emp, p \in Periods :
        ZeroRate(e) =>
            /\ ~PayDataNow(e, p).raised
            /\ PayDataNow(e, p).basic_pay = 0
            /\ PayDataNow(e, p).overtime_pay = 0
            /\ PayDataNow(e, p).night_differential_pay = 0
            /\ PayDataNow(e, p).holiday_pay = 0
            /\ PayDataNow(e, p).rest_day_pay = 0
            /\ PayDataNow(e, p).allowances = 0
            /\ PayDataNow(e, p).vacation_sickleave = 0
            /\ PayDataNow(e, p).salary_adjustment = 0
            /\ PayDataNow(e, p).incentive_pay = 0
            /\ PayDataNow(e, p).gross_pay = 0
            /\ (results[1].returned /\ employees[e].is_active) =>
                    /\ InSeq(e, results[1].computed_ids)
                    /\ ~InSeq(e, results[1].errors)

(* A run has returned over a store where the zero-rate employee worked a
   day with overtime on a holiday, and the employee's entry is stored with
   a gross pay of 0. *)
C27_Witness ==
    /\ results[1].returned
    /\ ZeroRate(1)
    /\ attendance[1][1].overtime_hours > 0
    /\ attendance[1][1].is_holiday
    /\ InSeq(1, results[1].computed_ids)
    /\ \E i \in DOMAIN payroll_entries :
        payroll_entries[i].employee_id = 1 /\ payroll_entries[i].gross_pay = 0

(* C29: every result of calculate_payroll_for_employee, as a run stores
   it, has net_pay >= 0 and total_deductions <= gross_pay. *)
C29_NetPayNonNegative ==
    \A i \in DOMAIN payroll_entries :
        /\ payroll_entries[i].net_pay >= 0
        /\ payroll_entries[i].total_deductions <= payroll_entries[i].gross_pay

(* C30: for taxable incomes a <= b the default-rule tax on a is at most the
   default-rule tax on b. *)
C30_DefaultTaxMonotone ==
    (ret.op = "default_tax" /\ ret.a <= ret.b) => ret.tax_a <= ret.tax_b

====
